---------------------------- MODULE Spec2Model ----------------------------
(***************************************************************************)
(* A model of the personal-manager backend: the bearer-token extractor,    *)
(* the JWT helpers and the per-entity CRUD handlers over the SQLite tables.*)
(* One action per HTTP handler; every action records the request it served *)
(* and the response it gave in `last`.                                     *)
(***************************************************************************)
EXTENDS Integers, Sequences, FiniteSets, TLC

VARIABLES
    now,                    \* the wall clock, in whole seconds (Utc::now())
    users,                  \* table users
    tokens,                 \* the tokens create_jwt has handed to clients
    accounts,               \* table accounts
    transactions,           \* table transactions
    budgets,                \* table budgets
    liabilities,            \* table liabilities
    loans,                  \* table loans
    recurring_transactions, \* table recurring_transactions
    savings_goals,          \* table savings_goals
    user_preferences,       \* table user_preferences
    inflight,               \* the requests being served, each at its await point
    last                    \* the last request served and its response

tables == <<accounts, transactions, budgets, liabilities, loans,
            recurring_transactions, savings_goals>>
vars == <<now, users, tokens, accounts, transactions, budgets, liabilities,
          loans, recurring_transactions, savings_goals, user_preferences,
          inflight, last>>

-----------------------------------------------------------------------------
(* Bounds of the model. *)

\* rows held by the accounts table, and by the other tables together, where
\* rows are listed and created
MaxRows == 2
\* the same where rows are read, updated and deleted by id
MaxHeld == 1
\* the clock stops ticking second by second here
MaxNow == 2
\* tokens in the hands of clients
MaxTokens == 3
\* rows held by the users table
MaxUsers == 4
\* requests served at a time where handlers are followed await by await
MaxInFlight == 2
\* the last second chrono's DateTime<Utc> represents (in the crate the last
\* second of the year 262142), brought down to the seconds the model sends
MaxTimestamp == 5

-----------------------------------------------------------------------------
(* Values. *)

\* Option<T>: None, or Some(x)
None == <<>>
Some(x) == <<x>>
Unwrap(o) == o[1]
unwrap_or(o, d) == IF o = None THEN d ELSE o[1]

UserIds == {"u1", "u2"}
Ids == {"id1", "id2"}
OptIds == {None} \cup {Some(i) : i \in Ids}

\* chrono DateTime<Utc>: whole seconds and the sub-second part
DateTime(s, n) == [secs |-> s, nanos |-> n]
\* Utc::now(); every use below keeps the whole seconds only
Utc_now == DateTime(now, 0)
\* d.format("%Y-%m-%d %H:%M:%S").to_string(): the text names a whole second
\* and is modelled by that second; the sub-second part is dropped
FormatDateTime(d) == d.secs
\* a stored "%Y-%m-%d %H:%M:%S" text read back as an instant
StoredDateTime(s) == DateTime(s, 0)
\* Option::map of the formatting
FormatOpt(o) == IF o = None THEN None ELSE Some(FormatDateTime(o[1]))

-----------------------------------------------------------------------------
(* utils/jwt.rs *)

JWT_SECRET == "your-secret-key-here-change-in-production"
\* Duration::hours(24), in seconds
TokenTtl == 86400
\* Validation::new(Algorithm::HS256): validate_exp with the default leeway
Leeway == 60

\* a string that is no JWT at all
GarbageToken ==
    [wellformed |-> FALSE, alg |-> "", key |-> "", sub |-> "", exp |-> 0, iat |-> 0]

\* a faulty create_jwt: the token expires as it is issued
create_jwt_short_lived(user_id, t) ==
    [wellformed |-> TRUE, alg |-> "HS256", key |-> JWT_SECRET,
     sub |-> user_id, exp |-> t, iat |-> t]
\* create_jwt(user_id) called at time t
create_jwt(user_id, t) ==
    [wellformed |-> TRUE, alg |-> "HS256", key |-> JWT_SECRET,
     sub |-> user_id, exp |-> t + TokenTtl, iat |-> t]

\* verify_jwt(token) called at time t: decode() checks the algorithm, the
\* signature, and rejects exp < now - leeway
verify_jwt(token, t) ==
    IF token.wellformed /\ token.alg = "HS256" /\ token.key = JWT_SECRET
       /\ ~(token.exp < t - Leeway)
    THEN [ok |-> TRUE, sub |-> token.sub, exp |-> token.exp, iat |-> token.iat]
    ELSE [ok |-> FALSE, sub |-> "", exp |-> 0, iat |-> 0]

-----------------------------------------------------------------------------
(* middleware/auth.rs *)

\* An Authorization header value is kept as its first seven characters and
\* the rest; ascii is whether to_str() accepts it.
NoHeader == [present |-> FALSE, ascii |-> TRUE, prefix |-> "", rest |-> GarbageToken]
Header(p, tok) == [present |-> TRUE, ascii |-> TRUE, prefix |-> p, rest |-> tok]
Bearer(tok) == Header("Bearer ", tok)

Rejection(msg) == [ok |-> FALSE, user_id |-> "", status |-> 401, error |-> msg]

\* a faulty extractor: the scheme of the header is not looked at
from_request_parts_any_scheme(h, t) ==
    IF ~h.present \/ ~h.ascii
    THEN Rejection("Missing Authorization header")
    ELSE IF ~verify_jwt(h.rest, t).ok
    THEN Rejection("Invalid or expired token")
    ELSE [ok |-> TRUE, user_id |-> verify_jwt(h.rest, t).sub, status |-> 200,
          error |-> ""]
\* AuthUser::from_request_parts for a request arriving at time t
from_request_parts(h, t) ==
    IF ~h.present \/ ~h.ascii
    THEN Rejection("Missing Authorization header")
    ELSE IF h.prefix /= "Bearer "
    THEN Rejection("Invalid Authorization header format. Expected: Bearer <token>")
    ELSE IF ~verify_jwt(h.rest, t).ok
    THEN Rejection("Invalid or expired token")
    ELSE [ok |-> TRUE, user_id |-> verify_jwt(h.rest, t).sub, status |-> 200,
          error |-> ""]

\* the headers a client holding the issued tokens sends
SessionHeaders == {NoHeader} \cup {Bearer(tok) : tok \in tokens}
\* tokens no call of create_jwt made
ForgedTokens ==
    {GarbageToken}
    \cup {[create_jwt(u, now) EXCEPT !.key = "attacker-secret"] : u \in UserIds}
    \cup {[create_jwt(u, now) EXCEPT !.alg = "none"] : u \in UserIds}
\* every header the model sends
Headers ==
    SessionHeaders
    \cup {[NoHeader EXCEPT !.present = TRUE, !.ascii = FALSE]}
    \cup {Header(p, tok) : p \in {"bearer ", "Basic ", "Bearer"}, tok \in tokens}
    \cup {Bearer(tok) : tok \in ForgedTokens}


-----------------------------------------------------------------------------
(* The SQL layer: what SQLite does with the statements the handlers send. *)

RowCount ==
    Cardinality(accounts) + Cardinality(transactions) + Cardinality(budgets)
    + Cardinality(liabilities) + Cardinality(loans)
    + Cardinality(recurring_transactions) + Cardinality(savings_goals)
\* the model keeps at most a accounts and at most k rows in the other tables:
\* a step that would store more is not taken
Within(a, k) ==
    /\ Cardinality(accounts') <= a
    /\ RowCount' - Cardinality(accounts') <= k

SqlOk == [kind |-> "ok", column |-> ""]
\* "UNIQUE constraint failed: <column>"
UniqueViolation(column) == [kind |-> "UNIQUE", column |-> column]
\* "FOREIGN KEY constraint failed"
ForeignKeyViolation == [kind |-> "FOREIGN KEY", column |-> ""]

\* a faulty table: id is no key, an INSERT of an id in use is accepted
InsertResultNoKey(table, row, pk, fk_ok) ==
    IF ~fk_ok THEN ForeignKeyViolation ELSE SqlOk
\* INSERT of row into table: id is the PRIMARY KEY (pk names the column in the
\* error text), fk_ok is whether every FOREIGN KEY of the row has its parent
InsertResult(table, row, pk, fk_ok) ==
    IF \E r \in table : r.id = row.id THEN UniqueViolation(pk)
    ELSE IF ~fk_ok THEN ForeignKeyViolation
    ELSE SqlOk

\* FOREIGN KEY (user_id) REFERENCES users(id)
UserExists(user_id) == \E u \in users : u.id = user_id
\* FOREIGN KEY (account_id) REFERENCES accounts(id)
AccountExists(account_id) == \E a \in accounts : a.id = account_id

\* Uuid::new_v4(): an id no row of the table has; drawn only when the request
\* gives none (unwrap_or_else)
FreshIds(table, opt_id) ==
    IF opt_id = None THEN Ids \ {r.id : r \in table} ELSE {"-"}

\* a faulty COALESCE: the bound parameter is never taken, the column stays
CoalesceKeepsColumn(param, old) == old
\* COALESCE(?, column) for a NOT NULL column and for a nullable one
Coalesce(param, old) == IF param = None THEN old ELSE param[1]
CoalesceNullable(param, old) == IF param = None THEN old ELSE param

\* a faulty scope: the owner is not part of the WHERE clause
ScopedUnscoped(table, id, user_id) == {r \in table : r.id = id}
\* WHERE id = ? AND user_id = ?
Scoped(table, id, user_id) == {r \in table : r.id = id /\ r.user_id = user_id}
\* WHERE user_id = ?
OwnedBy(table, user_id) == {r \in table : r.user_id = user_id}

RECURSIVE RowOrders(_)
RowOrders(S) ==
    IF S = {} THEN {<<>>}
    ELSE UNION {{<<x>> \o p : p \in RowOrders(S \ {x})} : x \in S}
\* ORDER BY key ASC / DESC: every order of the rows SQLite may return
OrderByAsc(S, column) ==
    {p \in RowOrders(S) :
        \A i \in 1..(Len(p) - 1) : p[i][column] <= p[i + 1][column]}
OrderByDesc(S, column) ==
    {p \in RowOrders(S) :
        \A i \in 1..(Len(p) - 1) : p[i][column] >= p[i + 1][column]}

\* the response a handler gives is recorded with the request and its time
Respond(op, h, id, req, status, body) ==
    last' = [op |-> op, at |-> now, header |-> h, id |-> id, req |-> req,
             status |-> status, body |-> body]


-----------------------------------------------------------------------------
(* models/account.rs *)

AccountTypes ==
    {"Wallet", "Bank", "MobileBanking", "Cash", "Investment", "Savings", "CreditCard"}
TransactionTypes == {"Income", "Expense", "Transfer"}

\* format!("{:?}", v).to_lowercase() of an enum variant
DebugLowercase(v) ==
    CASE v = "Wallet" -> "wallet"
      [] v = "Bank" -> "bank"
      [] v = "MobileBanking" -> "mobilebanking"
      [] v = "Cash" -> "cash"
      [] v = "Investment" -> "investment"
      [] v = "Savings" -> "savings"
      [] v = "CreditCard" -> "creditcard"
      [] v = "Income" -> "income"
      [] v = "Expense" -> "expense"
      [] v = "Transfer" -> "transfer"

\* #[serde(rename_all = "lowercase")]: the name of a variant in JSON
SerdeName(v) ==
    CASE v = "Wallet" -> "wallet"
      [] v = "Bank" -> "bank"
      [] v = "MobileBanking" -> "mobilebanking"
      [] v = "Cash" -> "cash"
      [] v = "Investment" -> "investment"
      [] v = "Savings" -> "savings"
      [] v = "CreditCard" -> "creditcard"
      [] v = "Income" -> "income"
      [] v = "Expense" -> "expense"
      [] v = "Transfer" -> "transfer"

\* #[derive(sqlx::Type)] with #[sqlx(rename = ...)]: decoding the column text
AccountTypeDecode(s) ==
    CASE s = "wallet" -> Some("Wallet")
      [] s = "bank" -> Some("Bank")
      [] s = "mobile_banking" -> Some("MobileBanking")
      [] s = "cash" -> Some("Cash")
      [] s = "investment" -> Some("Investment")
      [] s = "savings" -> Some("Savings")
      [] s = "credit_card" -> Some("CreditCard")
      [] OTHER -> None

\* a faulty Account::new: a supplied currency is dropped for the default
Account_new_default_currency(request, user_id, fresh) ==
    [id |-> unwrap_or(request.id, fresh),
     user_id |-> user_id,
     name |-> request.name,
     account_type |-> request.account_type,
     balance |-> request.balance,
     currency |-> "BDT",
     credit_limit |-> request.credit_limit,
     created_at |-> Utc_now,
     updated_at |-> Utc_now]
\* Account::new(request, user_id); fresh is the uuid drawn when id is None
Account_new(request, user_id, fresh) ==
    [id |-> unwrap_or(request.id, fresh),
     user_id |-> user_id,
     name |-> request.name,
     account_type |-> request.account_type,
     balance |-> request.balance,
     currency |-> unwrap_or(request.currency, "BDT"),
     credit_limit |-> request.credit_limit,
     created_at |-> Utc_now,
     updated_at |-> Utc_now]

-----------------------------------------------------------------------------
(* handlers/account.rs *)

OnlyLast ==
    UNCHANGED <<inflight, user_preferences, now, users, tokens, accounts, transactions, budgets, liabilities,
                loans, recurring_transactions, savings_goals>>
OnlyAccounts ==
    UNCHANGED <<inflight, user_preferences, now, users, tokens, transactions, budgets, liabilities,
                loans, recurring_transactions, savings_goals>>

\* the values create_account binds to its INSERT
AccountRow(account) ==
    [id |-> account.id,
     user_id |-> account.user_id,
     name |-> account.name,
     account_type |-> DebugLowercase(account.account_type),
     balance |-> account.balance,
     currency |-> account.currency,
     credit_limit |-> account.credit_limit,
     created_at |-> FormatDateTime(account.created_at),
     updated_at |-> FormatDateTime(account.updated_at)]

create_account(h, request) ==
    LET auth == from_request_parts(h, now) IN
    IF ~auth.ok
    THEN Respond("create_account", h, None, request, auth.status, auth.error)
         /\ OnlyLast
    ELSE \E fresh \in FreshIds(accounts, request.id) :
         LET account == Account_new(request, auth.user_id, fresh)
             row == AccountRow(account)
             result == InsertResult(accounts, row, "accounts.id",
                                    UserExists(row.user_id))
         IN IF result.kind = "ok"
            THEN /\ accounts' = accounts \cup {row}
                 /\ Respond("create_account", h, None, request, 200, account)
                 /\ OnlyAccounts
            ELSE Respond("create_account", h, None, request, 500, "")
                 /\ OnlyLast

get_accounts(h) ==
    LET auth == from_request_parts(h, now) IN
    IF ~auth.ok
    THEN Respond("get_accounts", h, None, None, auth.status, auth.error) /\ OnlyLast
    ELSE \E rows \in OrderByDesc(OwnedBy(accounts, auth.user_id), "created_at") :
         Respond("get_accounts", h, None, None, 200,
                 rows)
         /\ OnlyLast

\* the JSON object get_account builds of a row: the SELECT leaves user_id out
AccountJson(row) ==
    [id |-> row.id, name |-> row.name, account_type |-> row.account_type,
     balance |-> row.balance, currency |-> row.currency,
     credit_limit |-> row.credit_limit,
     created_at |-> row.created_at, updated_at |-> row.updated_at]

\* get_account takes no AuthUser: the Authorization header is not read
get_account(h, id) ==
    LET found == {r \in accounts : r.id = id} IN
    IF found /= {}
    THEN Respond("get_account", h, Some(id), None, 200,
                 AccountJson(CHOOSE r \in found : TRUE))
         /\ OnlyLast
    ELSE Respond("get_account", h, Some(id), None, 404, "") /\ OnlyLast

\* the SET clause of update_account applied to a row at time t
UpdateAccountRow(row, request, t) ==
    [row EXCEPT
       !.name = Coalesce(request.name, row.name),
       !.account_type =
           Coalesce(IF request.account_type = None THEN None
                    ELSE Some(DebugLowercase(request.account_type[1])),
                    row.account_type),
       !.balance = Coalesce(request.balance, row.balance),
       !.currency = Coalesce(request.currency, row.currency),
       !.credit_limit = CoalesceNullable(request.credit_limit, row.credit_limit),
       !.updated_at = t]

\* update_account takes no AuthUser: WHERE id = ? alone selects the row
update_account(h, id, request) ==
    LET t == FormatDateTime(Utc_now)
        hit == {r \in accounts : r.id = id}
    IN IF hit = {}
       THEN Respond("update_account", h, Some(id), request, 404, "") /\ OnlyLast
       ELSE /\ accounts' = (accounts \ hit)
                           \cup {UpdateAccountRow(r, request, t) : r \in hit}
            /\ Respond("update_account", h, Some(id), request, 200,
                       "Account updated successfully")
            /\ OnlyAccounts

\* a faulty delete_account: the transactions of the account stay
delete_account_no_cascade(h, id) ==
    LET hit == {r \in accounts : r.id = id} IN
    IF hit = {}
    THEN Respond("delete_account", h, Some(id), None, 404, "") /\ OnlyLast
    ELSE /\ accounts' = accounts \ hit
         /\ Respond("delete_account", h, Some(id), None, 200,
                    "Account deleted successfully")
         /\ OnlyAccounts

\* delete_account takes no AuthUser; transactions.account_id REFERENCES
\* accounts(id) ON DELETE CASCADE
delete_account(h, id) ==
    LET hit == {r \in accounts : r.id = id} IN
    IF hit = {}
    THEN Respond("delete_account", h, Some(id), None, 404, "") /\ OnlyLast
    ELSE /\ accounts' = accounts \ hit
         /\ transactions' = {x \in transactions : x.account_id /= id}
         /\ Respond("delete_account", h, Some(id), None, 200,
                    "Account deleted successfully")
         /\ UNCHANGED <<inflight, user_preferences, now, users, tokens, budgets, liabilities, loans,
                        recurring_transactions, savings_goals>>

-----------------------------------------------------------------------------
(* models/transaction.rs, handlers/transaction.rs *)

OnlyTransactions ==
    UNCHANGED <<inflight, user_preferences, now, users, tokens, accounts, budgets, liabilities,
                loans, recurring_transactions, savings_goals>>

\* Transaction::new(request, user_id): the id is always a new uuid
Transaction_new(request, user_id, fresh) ==
    [id |-> fresh,
     user_id |-> user_id,
     account_id |-> request.account_id,
     transaction_type |-> request.transaction_type,
     amount |-> request.amount,
     currency |-> unwrap_or(request.currency, "BDT"),
     category |-> request.category,
     description |-> request.description,
     date |-> unwrap_or(request.date, Utc_now),
     created_at |-> Utc_now]

\* the values create_transaction binds to its INSERT
TransactionRow(transaction) ==
    [id |-> transaction.id,
     user_id |-> transaction.user_id,
     account_id |-> transaction.account_id,
     transaction_type |-> DebugLowercase(transaction.transaction_type),
     amount |-> transaction.amount,
     currency |-> transaction.currency,
     category |-> transaction.category,
     description |-> transaction.description,
     date |-> FormatDateTime(transaction.date),
     created_at |-> FormatDateTime(transaction.created_at)]

create_transaction(h, request) ==
    LET auth == from_request_parts(h, now) IN
    IF ~auth.ok
    THEN Respond("create_transaction", h, None, request, auth.status, auth.error)
         /\ OnlyLast
    ELSE \E fresh \in FreshIds(transactions, None) :
         LET transaction == Transaction_new(request, auth.user_id, fresh)
             row == TransactionRow(transaction)
             result == InsertResult(transactions, row, "transactions.id",
                           UserExists(row.user_id) /\ AccountExists(row.account_id))
         IN IF result.kind = "ok"
            THEN /\ transactions' = transactions \cup {row}
                 /\ Respond("create_transaction", h, None, request, 200, transaction)
                 /\ OnlyTransactions
            ELSE IF result = UniqueViolation("transactions.id")
            THEN Respond("create_transaction", h, None, request, 409, "") /\ OnlyLast
            ELSE Respond("create_transaction", h, None, request, 500, "") /\ OnlyLast

get_transactions(h) ==
    LET auth == from_request_parts(h, now) IN
    IF ~auth.ok
    THEN Respond("get_transactions", h, None, None, auth.status, auth.error)
         /\ OnlyLast
    ELSE \E rows \in OrderByDesc(OwnedBy(transactions, auth.user_id), "date") :
         Respond("get_transactions", h, None, None, 200, rows) /\ OnlyLast

get_transaction(h, id) ==
    LET auth == from_request_parts(h, now)
        found == Scoped(transactions, id, auth.user_id)
    IN IF ~auth.ok
       THEN Respond("get_transaction", h, Some(id), None, auth.status, auth.error)
            /\ OnlyLast
       ELSE IF found /= {}
       THEN Respond("get_transaction", h, Some(id), None, 200,
                    CHOOSE r \in found : TRUE)
            /\ OnlyLast
       ELSE Respond("get_transaction", h, Some(id), None, 404, "") /\ OnlyLast

\* the SET clause of update_transaction applied to a row
UpdateTransactionRow(row, request) ==
    [row EXCEPT
       !.account_id = Coalesce(request.account_id, row.account_id),
       !.transaction_type =
           Coalesce(IF request.transaction_type = None THEN None
                    ELSE Some(DebugLowercase(request.transaction_type[1])),
                    row.transaction_type),
       !.amount = Coalesce(request.amount, row.amount),
       !.currency = Coalesce(request.currency, row.currency),
       !.category = CoalesceNullable(request.category, row.category),
       !.description = CoalesceNullable(request.description, row.description),
       !.date = Coalesce(FormatOpt(request.date), row.date)]

\* a faulty update_transaction: the rows are written although the statement
\* failed on the FOREIGN KEY
update_transaction_half_done(h, id, request) ==
    LET auth == from_request_parts(h, now)
        hit == Scoped(transactions, id, auth.user_id)
        updated == {UpdateTransactionRow(r, request) : r \in hit}
    IN IF ~auth.ok
       THEN Respond("update_transaction", h, Some(id), request, auth.status,
                    auth.error)
            /\ OnlyLast
       ELSE IF hit = {}
       THEN Respond("update_transaction", h, Some(id), request, 404, "")
            /\ OnlyLast
       ELSE /\ transactions' = (transactions \ hit) \cup updated
            /\ Respond("update_transaction", h, Some(id), request,
                       IF \E r \in updated : ~AccountExists(r.account_id)
                       THEN 500 ELSE 200,
                       "Transaction updated successfully")
            /\ OnlyTransactions

update_transaction(h, id, request) ==
    LET auth == from_request_parts(h, now)
        hit == Scoped(transactions, id, auth.user_id)
        updated == {UpdateTransactionRow(r, request) : r \in hit}
    IN IF ~auth.ok
       THEN Respond("update_transaction", h, Some(id), request, auth.status,
                    auth.error)
            /\ OnlyLast
       ELSE IF hit = {}
       THEN Respond("update_transaction", h, Some(id), request, 404, "")
            /\ OnlyLast
       ELSE IF \E r \in updated : ~AccountExists(r.account_id)
       THEN \* FOREIGN KEY constraint failed
            Respond("update_transaction", h, Some(id), request, 500, "")
            /\ OnlyLast
       ELSE /\ transactions' = (transactions \ hit) \cup updated
            /\ Respond("update_transaction", h, Some(id), request, 200,
                       "Transaction updated successfully")
            /\ OnlyTransactions

delete_transaction(h, id) ==
    LET auth == from_request_parts(h, now)
        hit == Scoped(transactions, id, auth.user_id)
    IN IF ~auth.ok
       THEN Respond("delete_transaction", h, Some(id), None, auth.status,
                    auth.error)
            /\ OnlyLast
       ELSE IF hit = {}
       THEN Respond("delete_transaction", h, Some(id), None, 404, "")
            /\ OnlyLast
       ELSE /\ transactions' = transactions \ hit
            /\ Respond("delete_transaction", h, Some(id), None, 200,
                       "Transaction deleted successfully")
            /\ OnlyTransactions

-----------------------------------------------------------------------------
(* models/budget.rs, handlers/budget.rs *)

OnlyBudget ==
    UNCHANGED <<inflight, user_preferences, now, users, tokens, accounts, transactions, liabilities, loans,
                recurring_transactions, savings_goals>>

\* Budget::new(request, user_id); fresh is the uuid drawn when id is None
Budget_new(request, user_id, fresh) ==
    [id |-> unwrap_or(request.id, fresh),
     user_id |-> user_id,
     category |-> request.category,
     amount |-> request.amount,
     currency |-> unwrap_or(request.currency, "BDT"),
     period |-> unwrap_or(request.period, "monthly"),
     created_at |-> Utc_now,
     updated_at |-> Utc_now]

\* the values create_budget binds to its INSERT
BudgetRow(budget) ==
    [id |-> budget.id,
     user_id |-> budget.user_id,
     category |-> budget.category,
     amount |-> budget.amount,
     currency |-> budget.currency,
     period |-> budget.period,
     created_at |-> FormatDateTime(budget.created_at),
     updated_at |-> FormatDateTime(budget.updated_at)]

create_budget(h, request) ==
    LET auth == from_request_parts(h, now) IN
    IF ~auth.ok
    THEN Respond("create_budget", h, None, request, auth.status, auth.error)
         /\ OnlyLast
    ELSE \E fresh \in FreshIds(budgets, request.id) :
         LET budget == Budget_new(request, auth.user_id, fresh)
             row == BudgetRow(budget)
             result == InsertResult(budgets, row, "budgets.id", TRUE)
         IN IF result.kind = "ok"
            THEN /\ budgets' = budgets \cup {row}
                 /\ Respond("create_budget", h, None, request, 200, budget)
                 /\ OnlyBudget
            ELSE IF result = UniqueViolation("budgets.id")
            THEN Respond("create_budget", h, None, request, 409, "") /\ OnlyLast
            ELSE Respond("create_budget", h, None, request, 500, "") /\ OnlyLast

get_budgets(h) ==
    LET auth == from_request_parts(h, now) IN
    IF ~auth.ok
    THEN Respond("get_budgets", h, None, None, auth.status, auth.error) /\ OnlyLast
    ELSE \E rows \in OrderByDesc(OwnedBy(budgets, auth.user_id), "created_at") :
         Respond("get_budgets", h, None, None, 200, rows) /\ OnlyLast

get_budget(h, id) ==
    LET auth == from_request_parts(h, now)
        found == Scoped(budgets, id, auth.user_id)
    IN IF ~auth.ok
       THEN Respond("get_budget", h, Some(id), None, auth.status, auth.error)
            /\ OnlyLast
       ELSE IF found /= {}
       THEN Respond("get_budget", h, Some(id), None, 200, CHOOSE r \in found : TRUE)
            /\ OnlyLast
       ELSE Respond("get_budget", h, Some(id), None, 404, "") /\ OnlyLast

\* a faulty update_budget: the whole row is written from the request, a field
\* the request leaves out going back to its value at creation
UpdateBudgetRowOverwrites(row, request, t) ==
    [row EXCEPT
       !.category = unwrap_or(request.category, "food"),
       !.amount = unwrap_or(request.amount, 100),
       !.currency = unwrap_or(request.currency, "BDT"),
       !.period = unwrap_or(request.period, "monthly"),
       !.updated_at = t]
\* a faulty update_budget: updated_at is left as it was
UpdateBudgetRowStale(row, request, t) ==
    [row EXCEPT
       !.category = Coalesce(request.category, row.category),
       !.amount = Coalesce(request.amount, row.amount),
       !.currency = Coalesce(request.currency, row.currency),
       !.period = Coalesce(request.period, row.period)]
\* the SET clause of update_budget applied to a row at time t
UpdateBudgetRow(row, request, t) ==
    [row EXCEPT
       !.category = Coalesce(request.category, row.category),
       !.amount = Coalesce(request.amount, row.amount),
       !.currency = Coalesce(request.currency, row.currency),
       !.period = Coalesce(request.period, row.period),
       !.updated_at = t]

update_budget(h, id, request) ==
    LET auth == from_request_parts(h, now)
        t == FormatDateTime(Utc_now)
        hit == Scoped(budgets, id, auth.user_id)
    IN IF ~auth.ok
       THEN Respond("update_budget", h, Some(id), request, auth.status, auth.error)
            /\ OnlyLast
       ELSE IF hit = {}
       THEN Respond("update_budget", h, Some(id), request, 404, "") /\ OnlyLast
       ELSE /\ budgets' = (budgets \ hit)
                    \cup {UpdateBudgetRow(r, request, t) : r \in hit}
            /\ Respond("update_budget", h, Some(id), request, 200,
                       "Budget updated successfully")
            /\ OnlyBudget

delete_budget(h, id) ==
    LET auth == from_request_parts(h, now)
        hit == Scoped(budgets, id, auth.user_id)
    IN IF ~auth.ok
       THEN Respond("delete_budget", h, Some(id), None, auth.status, auth.error)
            /\ OnlyLast
       ELSE IF hit = {}
       THEN Respond("delete_budget", h, Some(id), None, 404, "") /\ OnlyLast
       ELSE /\ budgets' = budgets \ hit
            /\ Respond("delete_budget", h, Some(id), None, 200,
                       "Budget deleted successfully")
            /\ OnlyBudget

-----------------------------------------------------------------------------
(* models/liability.rs, handlers/liability.rs *)

OnlyLiability ==
    UNCHANGED <<inflight, user_preferences, now, users, tokens, accounts, transactions, budgets, loans,
                recurring_transactions, savings_goals>>

\* Liability::new(request, user_id); fresh is the uuid drawn when id is None
Liability_new(request, user_id, fresh) ==
    [id |-> unwrap_or(request.id, fresh),
     user_id |-> user_id,
     person_name |-> request.person_name,
     amount |-> request.amount,
     currency |-> unwrap_or(request.currency, "BDT"),
     due_date |-> request.due_date,
     is_paid |-> unwrap_or(request.is_paid, FALSE),
     description |-> request.description,
     is_historical_entry |-> unwrap_or(request.is_historical_entry, FALSE),
     account_id |-> request.account_id,
     transaction_id |-> request.transaction_id,
     created_at |-> Utc_now,
     updated_at |-> Utc_now]

\* the values create_liability binds to its INSERT
LiabilityRow(liability) ==
    [id |-> liability.id,
     user_id |-> liability.user_id,
     person_name |-> liability.person_name,
     amount |-> liability.amount,
     currency |-> liability.currency,
     due_date |-> FormatDateTime(liability.due_date),
     is_paid |-> liability.is_paid,
     description |-> liability.description,
     is_historical_entry |-> liability.is_historical_entry,
     account_id |-> liability.account_id,
     transaction_id |-> liability.transaction_id,
     created_at |-> FormatDateTime(liability.created_at),
     updated_at |-> FormatDateTime(liability.updated_at)]

create_liability(h, request) ==
    LET auth == from_request_parts(h, now) IN
    IF ~auth.ok
    THEN Respond("create_liability", h, None, request, auth.status, auth.error)
         /\ OnlyLast
    ELSE \E fresh \in FreshIds(liabilities, request.id) :
         LET liability == Liability_new(request, auth.user_id, fresh)
             row == LiabilityRow(liability)
             result == InsertResult(liabilities, row, "liabilities.id", UserExists(row.user_id))
         IN IF result.kind = "ok"
            THEN /\ liabilities' = liabilities \cup {row}
                 /\ Respond("create_liability", h, None, request, 200, liability)
                 /\ OnlyLiability
            ELSE IF result = UniqueViolation("liabilities.id")
            THEN Respond("create_liability", h, None, request, 409, "") /\ OnlyLast
            ELSE Respond("create_liability", h, None, request, 500, "") /\ OnlyLast

get_liabilities(h) ==
    LET auth == from_request_parts(h, now) IN
    IF ~auth.ok
    THEN Respond("get_liabilities", h, None, None, auth.status, auth.error) /\ OnlyLast
    ELSE \E rows \in OrderByAsc(OwnedBy(liabilities, auth.user_id), "due_date") :
         Respond("get_liabilities", h, None, None, 200, rows) /\ OnlyLast

get_liability(h, id) ==
    LET auth == from_request_parts(h, now)
        found == Scoped(liabilities, id, auth.user_id)
    IN IF ~auth.ok
       THEN Respond("get_liability", h, Some(id), None, auth.status, auth.error)
            /\ OnlyLast
       ELSE IF found /= {}
       THEN Respond("get_liability", h, Some(id), None, 200, CHOOSE r \in found : TRUE)
            /\ OnlyLast
       ELSE Respond("get_liability", h, Some(id), None, 404, "") /\ OnlyLast

\* the SET clause of update_liability applied to a row at time t
UpdateLiabilityRow(row, request, t) ==
    [row EXCEPT
       !.person_name = Coalesce(request.person_name, row.person_name),
       !.amount = Coalesce(request.amount, row.amount),
       !.currency = Coalesce(request.currency, row.currency),
       !.due_date = Coalesce(FormatOpt(request.due_date), row.due_date),
       !.is_paid = Coalesce(request.is_paid, row.is_paid),
       !.description = CoalesceNullable(request.description, row.description),
       !.is_historical_entry = Coalesce(request.is_historical_entry, row.is_historical_entry),
       !.account_id = CoalesceNullable(request.account_id, row.account_id),
       !.transaction_id = CoalesceNullable(request.transaction_id, row.transaction_id),
       !.updated_at = t]

update_liability(h, id, request) ==
    LET auth == from_request_parts(h, now)
        t == FormatDateTime(Utc_now)
        hit == Scoped(liabilities, id, auth.user_id)
    IN IF ~auth.ok
       THEN Respond("update_liability", h, Some(id), request, auth.status, auth.error)
            /\ OnlyLast
       ELSE IF hit = {}
       THEN Respond("update_liability", h, Some(id), request, 404, "") /\ OnlyLast
       ELSE /\ liabilities' = (liabilities \ hit)
                    \cup {UpdateLiabilityRow(r, request, t) : r \in hit}
            /\ Respond("update_liability", h, Some(id), request, 200,
                       "Liability updated successfully")
            /\ OnlyLiability

delete_liability(h, id) ==
    LET auth == from_request_parts(h, now)
        hit == Scoped(liabilities, id, auth.user_id)
    IN IF ~auth.ok
       THEN Respond("delete_liability", h, Some(id), None, auth.status, auth.error)
            /\ OnlyLast
       ELSE IF hit = {}
       THEN Respond("delete_liability", h, Some(id), None, 404, "") /\ OnlyLast
       ELSE /\ liabilities' = liabilities \ hit
            /\ Respond("delete_liability", h, Some(id), None, 200,
                       "Liability deleted successfully")
            /\ OnlyLiability

-----------------------------------------------------------------------------
(* models/loan.rs, handlers/loan.rs *)

OnlyLoan ==
    UNCHANGED <<inflight, user_preferences, now, users, tokens, accounts, transactions, budgets, liabilities,
                recurring_transactions, savings_goals>>

\* Loan::new(request, user_id); fresh is the uuid drawn when id is None
Loan_new(request, user_id, fresh) ==
    [id |-> unwrap_or(request.id, fresh),
     user_id |-> user_id,
     person_name |-> request.person_name,
     amount |-> request.amount,
     currency |-> unwrap_or(request.currency, "BDT"),
     loan_date |-> request.loan_date,
     return_date |-> request.return_date,
     is_returned |-> unwrap_or(request.is_returned, FALSE),
     description |-> request.description,
     is_historical_entry |-> unwrap_or(request.is_historical_entry, FALSE),
     account_id |-> request.account_id,
     transaction_id |-> request.transaction_id,
     created_at |-> Utc_now,
     updated_at |-> Utc_now]

\* the values create_loan binds to its INSERT
LoanRow(loan) ==
    [id |-> loan.id,
     user_id |-> loan.user_id,
     person_name |-> loan.person_name,
     amount |-> loan.amount,
     currency |-> loan.currency,
     loan_date |-> FormatDateTime(loan.loan_date),
     return_date |-> FormatOpt(loan.return_date),
     is_returned |-> loan.is_returned,
     description |-> loan.description,
     is_historical_entry |-> loan.is_historical_entry,
     account_id |-> loan.account_id,
     transaction_id |-> loan.transaction_id,
     created_at |-> FormatDateTime(loan.created_at),
     updated_at |-> FormatDateTime(loan.updated_at)]

create_loan(h, request) ==
    LET auth == from_request_parts(h, now) IN
    IF ~auth.ok
    THEN Respond("create_loan", h, None, request, auth.status, auth.error)
         /\ OnlyLast
    ELSE \E fresh \in FreshIds(loans, request.id) :
         LET loan == Loan_new(request, auth.user_id, fresh)
             row == LoanRow(loan)
             result == InsertResult(loans, row, "loans.id", UserExists(row.user_id))
         IN IF result.kind = "ok"
            THEN /\ loans' = loans \cup {row}
                 /\ Respond("create_loan", h, None, request, 200, loan)
                 /\ OnlyLoan
            ELSE IF result = UniqueViolation("loans.id")
            THEN Respond("create_loan", h, None, request, 409, "") /\ OnlyLast
            ELSE Respond("create_loan", h, None, request, 500, "") /\ OnlyLast

get_loans(h) ==
    LET auth == from_request_parts(h, now) IN
    IF ~auth.ok
    THEN Respond("get_loans", h, None, None, auth.status, auth.error) /\ OnlyLast
    ELSE \E rows \in OrderByDesc(OwnedBy(loans, auth.user_id), "loan_date") :
         Respond("get_loans", h, None, None, 200, rows) /\ OnlyLast

get_loan(h, id) ==
    LET auth == from_request_parts(h, now)
        found == Scoped(loans, id, auth.user_id)
    IN IF ~auth.ok
       THEN Respond("get_loan", h, Some(id), None, auth.status, auth.error)
            /\ OnlyLast
       ELSE IF found /= {}
       THEN Respond("get_loan", h, Some(id), None, 200, CHOOSE r \in found : TRUE)
            /\ OnlyLast
       ELSE Respond("get_loan", h, Some(id), None, 404, "") /\ OnlyLast

\* a faulty update_loan: updated_at is set only when a field is supplied
UpdateLoanRowStale(row, request, t) ==
    [row EXCEPT
       !.person_name = Coalesce(request.person_name, row.person_name),
       !.amount = Coalesce(request.amount, row.amount),
       !.currency = Coalesce(request.currency, row.currency),
       !.loan_date = Coalesce(FormatOpt(request.loan_date), row.loan_date),
       !.return_date = CoalesceNullable(FormatOpt(request.return_date), row.return_date),
       !.is_returned = Coalesce(request.is_returned, row.is_returned),
       !.description = CoalesceNullable(request.description, row.description),
       !.is_historical_entry = Coalesce(request.is_historical_entry, row.is_historical_entry),
       !.account_id = CoalesceNullable(request.account_id, row.account_id),
       !.transaction_id = CoalesceNullable(request.transaction_id, row.transaction_id),
       !.updated_at = IF \A f \in DOMAIN request : request[f] = None
                      THEN row.updated_at ELSE t]
\* the SET clause of update_loan applied to a row at time t
UpdateLoanRow(row, request, t) ==
    [row EXCEPT
       !.person_name = Coalesce(request.person_name, row.person_name),
       !.amount = Coalesce(request.amount, row.amount),
       !.currency = Coalesce(request.currency, row.currency),
       !.loan_date = Coalesce(FormatOpt(request.loan_date), row.loan_date),
       !.return_date = CoalesceNullable(FormatOpt(request.return_date), row.return_date),
       !.is_returned = Coalesce(request.is_returned, row.is_returned),
       !.description = CoalesceNullable(request.description, row.description),
       !.is_historical_entry = Coalesce(request.is_historical_entry, row.is_historical_entry),
       !.account_id = CoalesceNullable(request.account_id, row.account_id),
       !.transaction_id = CoalesceNullable(request.transaction_id, row.transaction_id),
       !.updated_at = t]

update_loan(h, id, request) ==
    LET auth == from_request_parts(h, now)
        t == FormatDateTime(Utc_now)
        hit == Scoped(loans, id, auth.user_id)
    IN IF ~auth.ok
       THEN Respond("update_loan", h, Some(id), request, auth.status, auth.error)
            /\ OnlyLast
       ELSE IF hit = {}
       THEN Respond("update_loan", h, Some(id), request, 404, "") /\ OnlyLast
       ELSE /\ loans' = (loans \ hit)
                    \cup {UpdateLoanRow(r, request, t) : r \in hit}
            /\ Respond("update_loan", h, Some(id), request, 200,
                       "Loan updated successfully")
            /\ OnlyLoan

delete_loan(h, id) ==
    LET auth == from_request_parts(h, now)
        hit == Scoped(loans, id, auth.user_id)
    IN IF ~auth.ok
       THEN Respond("delete_loan", h, Some(id), None, auth.status, auth.error)
            /\ OnlyLast
       ELSE IF hit = {}
       THEN Respond("delete_loan", h, Some(id), None, 404, "") /\ OnlyLast
       ELSE /\ loans' = loans \ hit
            /\ Respond("delete_loan", h, Some(id), None, 200,
                       "Loan deleted successfully")
            /\ OnlyLoan

-----------------------------------------------------------------------------
(* models/recurring_transaction.rs, handlers/recurring_transaction.rs *)

OnlyRecurringTransaction ==
    UNCHANGED <<inflight, user_preferences, now, users, tokens, accounts, transactions, budgets, liabilities, loans,
                savings_goals>>

\* RecurringTransaction::new(request, user_id); fresh is the uuid drawn when id is None
RecurringTransaction_new(request, user_id, fresh) ==
    [id |-> unwrap_or(request.id, fresh),
     user_id |-> user_id,
     account_id |-> request.account_id,
     transaction_type |-> request.transaction_type,
     amount |-> request.amount,
     currency |-> unwrap_or(request.currency, "BDT"),
     category |-> request.category,
     description |-> request.description,
     frequency |-> unwrap_or(request.frequency, "monthly"),
     start_date |-> request.start_date,
     end_date |-> request.end_date,
     next_due_date |-> request.next_due_date,
     is_active |-> unwrap_or(request.is_active, TRUE),
     savings_goal_id |-> request.savings_goal_id,
     created_at |-> Utc_now,
     updated_at |-> Utc_now]

\* the values create_recurring_transaction binds to its INSERT
RecurringTransactionRow(recurring_transaction) ==
    [id |-> recurring_transaction.id,
     user_id |-> recurring_transaction.user_id,
     account_id |-> recurring_transaction.account_id,
     transaction_type |-> recurring_transaction.transaction_type,
     amount |-> recurring_transaction.amount,
     currency |-> recurring_transaction.currency,
     category |-> recurring_transaction.category,
     description |-> recurring_transaction.description,
     frequency |-> recurring_transaction.frequency,
     start_date |-> FormatDateTime(recurring_transaction.start_date),
     end_date |-> FormatOpt(recurring_transaction.end_date),
     next_due_date |-> FormatDateTime(recurring_transaction.next_due_date),
     is_active |-> recurring_transaction.is_active,
     savings_goal_id |-> recurring_transaction.savings_goal_id,
     created_at |-> FormatDateTime(recurring_transaction.created_at),
     updated_at |-> FormatDateTime(recurring_transaction.updated_at)]

create_recurring_transaction(h, request) ==
    LET auth == from_request_parts(h, now) IN
    IF ~auth.ok
    THEN Respond("create_recurring_transaction", h, None, request, auth.status, auth.error)
         /\ OnlyLast
    ELSE \E fresh \in FreshIds(recurring_transactions, request.id) :
         LET recurring_transaction == RecurringTransaction_new(request, auth.user_id, fresh)
             row == RecurringTransactionRow(recurring_transaction)
             result == InsertResult(recurring_transactions, row, "recurring_transactions.id", TRUE)
         IN IF result.kind = "ok"
            THEN /\ recurring_transactions' = recurring_transactions \cup {row}
                 /\ Respond("create_recurring_transaction", h, None, request, 200, recurring_transaction)
                 /\ OnlyRecurringTransaction
            ELSE IF result = UniqueViolation("recurring_transactions.id")
            THEN Respond("create_recurring_transaction", h, None, request, 409, "") /\ OnlyLast
            ELSE Respond("create_recurring_transaction", h, None, request, 500, "") /\ OnlyLast

get_recurring_transactions(h) ==
    LET auth == from_request_parts(h, now) IN
    IF ~auth.ok
    THEN Respond("get_recurring_transactions", h, None, None, auth.status, auth.error) /\ OnlyLast
    ELSE \E rows \in OrderByDesc(OwnedBy(recurring_transactions, auth.user_id), "created_at") :
         Respond("get_recurring_transactions", h, None, None, 200, rows) /\ OnlyLast

get_recurring_transaction(h, id) ==
    LET auth == from_request_parts(h, now)
        found == Scoped(recurring_transactions, id, auth.user_id)
    IN IF ~auth.ok
       THEN Respond("get_recurring_transaction", h, Some(id), None, auth.status, auth.error)
            /\ OnlyLast
       ELSE IF found /= {}
       THEN Respond("get_recurring_transaction", h, Some(id), None, 200, CHOOSE r \in found : TRUE)
            /\ OnlyLast
       ELSE Respond("get_recurring_transaction", h, Some(id), None, 404, "") /\ OnlyLast

\* the SET clause of update_recurring_transaction applied to a row at time t
UpdateRecurringTransactionRow(row, request, t) ==
    [row EXCEPT
       !.account_id = Coalesce(request.account_id, row.account_id),
       !.transaction_type = Coalesce(request.transaction_type, row.transaction_type),
       !.amount = Coalesce(request.amount, row.amount),
       !.currency = Coalesce(request.currency, row.currency),
       !.category = CoalesceNullable(request.category, row.category),
       !.description = CoalesceNullable(request.description, row.description),
       !.frequency = Coalesce(request.frequency, row.frequency),
       !.start_date = Coalesce(FormatOpt(request.start_date), row.start_date),
       !.end_date = CoalesceNullable(FormatOpt(request.end_date), row.end_date),
       !.next_due_date = Coalesce(FormatOpt(request.next_due_date), row.next_due_date),
       !.is_active = Coalesce(request.is_active, row.is_active),
       !.savings_goal_id = CoalesceNullable(request.savings_goal_id, row.savings_goal_id),
       !.updated_at = t]

update_recurring_transaction(h, id, request) ==
    LET auth == from_request_parts(h, now)
        t == FormatDateTime(Utc_now)
        hit == Scoped(recurring_transactions, id, auth.user_id)
    IN IF ~auth.ok
       THEN Respond("update_recurring_transaction", h, Some(id), request, auth.status, auth.error)
            /\ OnlyLast
       ELSE IF hit = {}
       THEN Respond("update_recurring_transaction", h, Some(id), request, 404, "") /\ OnlyLast
       ELSE /\ recurring_transactions' = (recurring_transactions \ hit)
                    \cup {UpdateRecurringTransactionRow(r, request, t) : r \in hit}
            /\ Respond("update_recurring_transaction", h, Some(id), request, 200,
                       "Recurring transaction updated successfully")
            /\ OnlyRecurringTransaction

delete_recurring_transaction(h, id) ==
    LET auth == from_request_parts(h, now)
        hit == Scoped(recurring_transactions, id, auth.user_id)
    IN IF ~auth.ok
       THEN Respond("delete_recurring_transaction", h, Some(id), None, auth.status, auth.error)
            /\ OnlyLast
       ELSE IF hit = {}
       THEN Respond("delete_recurring_transaction", h, Some(id), None, 404, "") /\ OnlyLast
       ELSE /\ recurring_transactions' = recurring_transactions \ hit
            /\ Respond("delete_recurring_transaction", h, Some(id), None, 200,
                       "Recurring transaction deleted successfully")
            /\ OnlyRecurringTransaction

-----------------------------------------------------------------------------
(* models/savings_goal.rs, handlers/savings_goal.rs *)

OnlySavingsGoal ==
    UNCHANGED <<inflight, user_preferences, now, users, tokens, accounts, transactions, budgets, liabilities, loans,
                recurring_transactions>>

\* SavingsGoal::new(request, user_id); fresh is the uuid drawn when id is None
SavingsGoal_new(request, user_id, fresh) ==
    [id |-> unwrap_or(request.id, fresh),
     user_id |-> user_id,
     name |-> request.name,
     target_amount |-> request.target_amount,
     current_amount |-> 0,
     currency |-> unwrap_or(request.currency, "BDT"),
     target_date |-> request.target_date,
     description |-> request.description,
     account_id |-> request.account_id,
     priority |-> unwrap_or(request.priority, "medium"),
     is_completed |-> FALSE,
     created_at |-> Utc_now,
     updated_at |-> Utc_now]

\* the values create_savings_goal binds to its INSERT
SavingsGoalRow(savings_goal) ==
    [id |-> savings_goal.id,
     user_id |-> savings_goal.user_id,
     name |-> savings_goal.name,
     target_amount |-> savings_goal.target_amount,
     current_amount |-> savings_goal.current_amount,
     currency |-> savings_goal.currency,
     target_date |-> FormatDateTime(savings_goal.target_date),
     description |-> savings_goal.description,
     account_id |-> savings_goal.account_id,
     priority |-> savings_goal.priority,
     is_completed |-> savings_goal.is_completed,
     created_at |-> FormatDateTime(savings_goal.created_at),
     updated_at |-> FormatDateTime(savings_goal.updated_at)]

create_savings_goal(h, request) ==
    LET auth == from_request_parts(h, now) IN
    IF ~auth.ok
    THEN Respond("create_savings_goal", h, None, request, auth.status, auth.error)
         /\ OnlyLast
    ELSE \E fresh \in FreshIds(savings_goals, request.id) :
         LET savings_goal == SavingsGoal_new(request, auth.user_id, fresh)
             row == SavingsGoalRow(savings_goal)
             result == InsertResult(savings_goals, row, "savings_goals.id", TRUE)
         IN IF result.kind = "ok"
            THEN /\ savings_goals' = savings_goals \cup {row}
                 /\ Respond("create_savings_goal", h, None, request, 200, savings_goal)
                 /\ OnlySavingsGoal
            ELSE IF result = UniqueViolation("savings_goals.id")
            THEN Respond("create_savings_goal", h, None, request, 409, "") /\ OnlyLast
            ELSE Respond("create_savings_goal", h, None, request, 500, "") /\ OnlyLast

get_savings_goals(h) ==
    LET auth == from_request_parts(h, now) IN
    IF ~auth.ok
    THEN Respond("get_savings_goals", h, None, None, auth.status, auth.error) /\ OnlyLast
    ELSE \E rows \in OrderByAsc(OwnedBy(savings_goals, auth.user_id), "target_date") :
         Respond("get_savings_goals", h, None, None, 200, rows) /\ OnlyLast

get_savings_goal(h, id) ==
    LET auth == from_request_parts(h, now)
        found == Scoped(savings_goals, id, auth.user_id)
    IN IF ~auth.ok
       THEN Respond("get_savings_goal", h, Some(id), None, auth.status, auth.error)
            /\ OnlyLast
       ELSE IF found /= {}
       THEN Respond("get_savings_goal", h, Some(id), None, 200, CHOOSE r \in found : TRUE)
            /\ OnlyLast
       ELSE Respond("get_savings_goal", h, Some(id), None, 404, "") /\ OnlyLast

\* the SET clause of update_savings_goal applied to a row at time t
UpdateSavingsGoalRow(row, request, t) ==
    [row EXCEPT
       !.name = Coalesce(request.name, row.name),
       !.target_amount = Coalesce(request.target_amount, row.target_amount),
       !.current_amount = Coalesce(request.current_amount, row.current_amount),
       !.currency = Coalesce(request.currency, row.currency),
       !.target_date = Coalesce(FormatOpt(request.target_date), row.target_date),
       !.description = CoalesceNullable(request.description, row.description),
       !.account_id = CoalesceNullable(request.account_id, row.account_id),
       !.priority = Coalesce(request.priority, row.priority),
       !.is_completed = Coalesce(request.is_completed, row.is_completed),
       !.updated_at = t]

update_savings_goal(h, id, request) ==
    LET auth == from_request_parts(h, now)
        t == FormatDateTime(Utc_now)
        hit == Scoped(savings_goals, id, auth.user_id)
    IN IF ~auth.ok
       THEN Respond("update_savings_goal", h, Some(id), request, auth.status, auth.error)
            /\ OnlyLast
       ELSE IF hit = {}
       THEN Respond("update_savings_goal", h, Some(id), request, 404, "") /\ OnlyLast
       ELSE /\ savings_goals' = (savings_goals \ hit)
                    \cup {UpdateSavingsGoalRow(r, request, t) : r \in hit}
            /\ Respond("update_savings_goal", h, Some(id), request, 200,
                       "Savings goal updated successfully")
            /\ OnlySavingsGoal

delete_savings_goal(h, id) ==
    LET auth == from_request_parts(h, now)
        hit == Scoped(savings_goals, id, auth.user_id)
    IN IF ~auth.ok
       THEN Respond("delete_savings_goal", h, Some(id), None, auth.status, auth.error)
            /\ OnlyLast
       ELSE IF hit = {}
       THEN Respond("delete_savings_goal", h, Some(id), None, 404, "") /\ OnlyLast
       ELSE /\ savings_goals' = savings_goals \ hit
            /\ Respond("delete_savings_goal", h, Some(id), None, 200,
                       "Savings goal deleted successfully")
            /\ OnlySavingsGoal

-----------------------------------------------------------------------------
(* handlers/user_data.rs *)

\* #[derive(sqlx::Type)] of TransactionType: decoding the column text
TransactionTypeDecode(s) ==
    CASE s = "income" -> Some("Income")
      [] s = "expense" -> Some("Expense")
      [] s = "transfer" -> Some("Transfer")
      [] OTHER -> None

\* Option::map of reading a stored date-time back
StoredOpt(o) == IF o = None THEN None ELSE Some(StoredDateTime(o[1]))

\* #[derive(FromRow)] of Account: a row decoded into the struct
AccountFromRow(row) ==
    [row EXCEPT
       !.account_type = Unwrap(AccountTypeDecode(row.account_type)),
       !.created_at = StoredDateTime(row.created_at),
       !.updated_at = StoredDateTime(row.updated_at)]
\* whether every column of the row decodes
AccountDecodes(row) == AccountTypeDecode(row.account_type) /= None

get_user_accounts(h) ==
    LET auth == from_request_parts(h, now) IN
    IF ~auth.ok
    THEN Respond("get_user_accounts", h, None, None, auth.status, auth.error) /\ OnlyLast
    ELSE \E rows \in OrderByDesc(OwnedBy(accounts, auth.user_id), "created_at") :
         IF \E i \in DOMAIN rows : ~AccountDecodes(rows[i])
         THEN Respond("get_user_accounts", h, None, None, 500, "Failed to fetch accounts") /\ OnlyLast
         ELSE Respond("get_user_accounts", h, None, None, 200,
                      [i \in DOMAIN rows |-> AccountFromRow(rows[i])])
              /\ OnlyLast

\* #[derive(FromRow)] of Transaction: a row decoded into the struct
TransactionFromRow(row) ==
    [row EXCEPT
       !.transaction_type = Unwrap(TransactionTypeDecode(row.transaction_type)),
       !.date = StoredDateTime(row.date),
       !.created_at = StoredDateTime(row.created_at)]
\* whether every column of the row decodes
TransactionDecodes(row) == TransactionTypeDecode(row.transaction_type) /= None

get_user_transactions(h) ==
    LET auth == from_request_parts(h, now) IN
    IF ~auth.ok
    THEN Respond("get_user_transactions", h, None, None, auth.status, auth.error) /\ OnlyLast
    ELSE \E rows \in OrderByDesc(OwnedBy(transactions, auth.user_id), "date") :
         IF \E i \in DOMAIN rows : ~TransactionDecodes(rows[i])
         THEN Respond("get_user_transactions", h, None, None, 500, "Failed to fetch transactions") /\ OnlyLast
         ELSE Respond("get_user_transactions", h, None, None, 200,
                      [i \in DOMAIN rows |-> TransactionFromRow(rows[i])])
              /\ OnlyLast

\* #[derive(FromRow)] of Loan: a row decoded into the struct
LoanFromRow(row) ==
    [row EXCEPT
       !.loan_date = StoredDateTime(row.loan_date),
       !.created_at = StoredDateTime(row.created_at),
       !.updated_at = StoredDateTime(row.updated_at),
       !.return_date = StoredOpt(row.return_date)]

get_user_loans(h) ==
    LET auth == from_request_parts(h, now) IN
    IF ~auth.ok
    THEN Respond("get_user_loans", h, None, None, auth.status, auth.error) /\ OnlyLast
    ELSE \E rows \in OrderByDesc(OwnedBy(loans, auth.user_id), "loan_date") :
         Respond("get_user_loans", h, None, None, 200,
                 [i \in DOMAIN rows |-> LoanFromRow(rows[i])])
         /\ OnlyLast

\* #[derive(FromRow)] of Liability: a row decoded into the struct
LiabilityFromRow(row) ==
    [row EXCEPT
       !.due_date = StoredDateTime(row.due_date),
       !.created_at = StoredDateTime(row.created_at),
       !.updated_at = StoredDateTime(row.updated_at)]

get_user_liabilities(h) ==
    LET auth == from_request_parts(h, now) IN
    IF ~auth.ok
    THEN Respond("get_user_liabilities", h, None, None, auth.status, auth.error) /\ OnlyLast
    ELSE \E rows \in OrderByAsc(OwnedBy(liabilities, auth.user_id), "due_date") :
         Respond("get_user_liabilities", h, None, None, 200,
                 [i \in DOMAIN rows |-> LiabilityFromRow(rows[i])])
         /\ OnlyLast

\* #[derive(FromRow)] of Budget: a row decoded into the struct
BudgetFromRow(row) ==
    [row EXCEPT
       !.created_at = StoredDateTime(row.created_at),
       !.updated_at = StoredDateTime(row.updated_at)]

get_user_budgets(h) ==
    LET auth == from_request_parts(h, now) IN
    IF ~auth.ok
    THEN Respond("get_user_budgets", h, None, None, auth.status, auth.error) /\ OnlyLast
    ELSE \E rows \in OrderByDesc(OwnedBy(budgets, auth.user_id), "created_at") :
         Respond("get_user_budgets", h, None, None, 200,
                 [i \in DOMAIN rows |-> BudgetFromRow(rows[i])])
         /\ OnlyLast

\* #[derive(FromRow)] of RecurringTransaction: a row decoded into the struct
RecurringTransactionFromRow(row) ==
    [row EXCEPT
       !.start_date = StoredDateTime(row.start_date),
       !.next_due_date = StoredDateTime(row.next_due_date),
       !.created_at = StoredDateTime(row.created_at),
       !.updated_at = StoredDateTime(row.updated_at),
       !.end_date = StoredOpt(row.end_date)]

get_user_recurring_transactions(h) ==
    LET auth == from_request_parts(h, now) IN
    IF ~auth.ok
    THEN Respond("get_user_recurring_transactions", h, None, None, auth.status, auth.error) /\ OnlyLast
    ELSE \E rows \in OrderByDesc(OwnedBy(recurring_transactions, auth.user_id), "created_at") :
         Respond("get_user_recurring_transactions", h, None, None, 200,
                 [i \in DOMAIN rows |-> RecurringTransactionFromRow(rows[i])])
         /\ OnlyLast

\* get_user_savings_goals reads the columns as text: ORDER BY created_at DESC
get_user_savings_goals(h) ==
    LET auth == from_request_parts(h, now) IN
    IF ~auth.ok
    THEN Respond("get_user_savings_goals", h, None, None, auth.status, auth.error)
         /\ OnlyLast
    ELSE \E rows \in OrderByDesc(OwnedBy(savings_goals, auth.user_id), "created_at") :
         Respond("get_user_savings_goals", h, None, None, 200, rows) /\ OnlyLast

-----------------------------------------------------------------------------
(* handlers/auth.rs *)

\* bcrypt: hash(password, DEFAULT_COST) and verify(password, hash)
hash(password) == <<"bcrypt", password>>
verify(password, password_hash) == password_hash = hash(password)

Emails == {"a@x.io", "b@x.io", "nobody@x.io"}
Passwords == {"secret-a", "secret-b"}

\* a faulty login: an unknown email is told apart from a wrong password
login_naming_unknown(email, password) ==
    LET req == [email |-> email, password |-> password] IN
    IF {u \in users : u.email = email} = {}
    THEN Respond("login", NoHeader, None, req, 404, "Unknown email") /\ OnlyLast
    ELSE Respond("login", NoHeader, None, req, 401, "Invalid email or password")
         /\ OnlyLast
\* login: the user is found by email, the password verified, a token issued
login(email, password) ==
    LET found == {u \in users : u.email = email}
        user == CHOOSE u \in found : TRUE
        req == [email |-> email, password |-> password]
    IN IF found = {}
       THEN Respond("login", NoHeader, None, req, 401, "Invalid email or password")
            /\ OnlyLast
       ELSE IF ~verify(password, user.password_hash)
       THEN Respond("login", NoHeader, None, req, 401, "Invalid email or password")
            /\ OnlyLast
       ELSE /\ tokens' = tokens \cup {create_jwt(user.id, now)}
            /\ Respond("login", NoHeader, None, req, 200,
                       [token |-> create_jwt(user.id, now),
                        user |-> [id |-> user.id, name |-> user.name,
                                  email |-> user.email,
                                  created_at |-> user.created_at,
                                  updated_at |-> user.updated_at]])
            /\ UNCHANGED <<inflight, user_preferences, now, users, accounts, transactions, budgets, liabilities,
                           loans, recurring_transactions, savings_goals>>

\* the emails sign-up and sign-in requests carry: as stored for the first
\* user, the same in capitals, a new one, the new one capitalised and padded
SignEmails == {"a@x.io", "A@x.io", "c@x.io", " C@x.io "}
Names == {"Ann"}
OptNames == {None} \cup {Some(n) : n \in Names}

\* payload.email.trim().to_lowercase()
trim_to_lowercase(email) ==
    CASE email = "A@x.io" -> "a@x.io"
      [] email = " C@x.io " -> "c@x.io"
      [] OTHER -> email

\* Uuid::new_v4() of User::new: an id no user has
FreshUserIds == {"u3", "u4", "u5"} \ {u.id : u \in users}

\* User::new(name, email, password_hash); fresh is the uuid drawn
User_new(name, email, password_hash, fresh) ==
    [id |-> fresh, name |-> name, email |-> email,
     password_hash |-> password_hash,
     created_at |-> Utc_now, updated_at |-> Utc_now]

\* UserResponse::from(user)
UserResponse(user) ==
    [id |-> user.id, name |-> user.name, email |-> user.email,
     created_at |-> user.created_at, updated_at |-> user.updated_at]
\* AuthResponse { token, user }
AuthResponse(user) ==
    [token |-> create_jwt(user.id, now), user |-> UserResponse(user)]

\* a faulty lookup: no user is ever found
UsersByEmailNone(email) == {}
\* SELECT * FROM users WHERE email = ?
UsersByEmail(email) == {u \in users : u.email = email}

\* a faulty users table: email is not UNIQUE
InsertUserResultAnyEmail(user) ==
    IF \E u \in users : u.id = user.id THEN UniqueViolation("users.id")
    ELSE SqlOk
\* INSERT INTO users: id is the PRIMARY KEY, email is UNIQUE
InsertUserResult(user) ==
    IF \E u \in users : u.id = user.id THEN UniqueViolation("users.id")
    ELSE IF \E u \in users : u.email = user.email
    THEN UniqueViolation("users.email")
    ELSE SqlOk

\* the frame of a sign-up or sign-in that stores a user and issues a token
OnlyUsers ==
    UNCHANGED <<inflight, user_preferences, now, accounts, transactions, budgets, liabilities, loans,
                recurring_transactions, savings_goals>>

\* the user is stored and answered with a token, or the INSERT fails
InsertUserAndRespond(op, req, user) ==
    IF InsertUserResult(user).kind = "ok"
    THEN /\ users' = users \cup {user}
         /\ tokens' = tokens \cup {create_jwt(user.id, now)}
         /\ Respond(op, NoHeader, None, req, 200, AuthResponse(user))
         /\ OnlyUsers
    ELSE Respond(op, NoHeader, None, req, 500, "Failed to create user")
         /\ OnlyLast

\* signup: 409 when a user has the email as sent, else the user is stored
signup(name, email, password) ==
    LET req == [name |-> name, email |-> email, password |-> password] IN
    IF UsersByEmail(email) /= {}
    THEN Respond("signup", NoHeader, None, req, 409,
                 "User with this email already exists")
         /\ OnlyLast
    ELSE \E fresh \in FreshUserIds :
           InsertUserAndRespond("signup", req,
                                User_new(name, email, hash(password), fresh))

\* a faulty signin: a registration without a name goes through under the
\* name "User"
signin_default_name(name, email_sent, password) ==
    LET req == [name |-> name, email |-> email_sent, password |-> password]
        email == trim_to_lowercase(email_sent)
        found == UsersByEmail(email)
        user == CHOOSE u \in found : TRUE
    IN IF found /= {}
       THEN IF ~verify(password, user.password_hash)
            THEN Respond("signin", NoHeader, None, req, 401,
                         "Invalid email or password")
                 /\ OnlyLast
            ELSE /\ tokens' = tokens \cup {create_jwt(user.id, now)}
                 /\ Respond("signin", NoHeader, None, req, 200, AuthResponse(user))
                 /\ UNCHANGED users
                 /\ OnlyUsers
       ELSE \E fresh \in FreshUserIds :
              InsertUserAndRespond("signin", req,
                                   User_new(unwrap_or(name, "User"), email,
                                            hash(password), fresh))
\* signin: the email is trimmed and lower-cased; a user found by it is logged
\* in, else one is registered, which needs a name
signin(name, email_sent, password) ==
    LET req == [name |-> name, email |-> email_sent, password |-> password]
        email == trim_to_lowercase(email_sent)
        found == UsersByEmail(email)
        user == CHOOSE u \in found : TRUE
    IN IF found /= {}
       THEN IF ~verify(password, user.password_hash)
            THEN Respond("signin", NoHeader, None, req, 401,
                         "Invalid email or password")
                 /\ OnlyLast
            ELSE /\ tokens' = tokens \cup {create_jwt(user.id, now)}
                 /\ Respond("signin", NoHeader, None, req, 200, AuthResponse(user))
                 /\ UNCHANGED users
                 /\ OnlyUsers
       ELSE IF name = None
       THEN Respond("signin", NoHeader, None, req, 400,
                    "Name is required for new user registration")
            /\ OnlyLast
       ELSE \E fresh \in FreshUserIds :
              InsertUserAndRespond("signin", req,
                                   User_new(name[1], email, hash(password), fresh))

-----------------------------------------------------------------------------
(* handlers/preference.rs *)

OnlyUserPreferences ==
    UNCHANGED <<inflight, now, users, tokens, accounts, transactions, budgets, liabilities,
                loans, recurring_transactions, savings_goals>>

\* serde_json::Value: the JSON values a member of the body can be
JsonString(s) == <<"string", s>>
JsonNull == <<"null">>
JsonNumber(digits) == <<"number", digits>>

\* Value::get(key) on an object, given as its set of <<key, value>> members
Value_get(request, key) ==
    IF \E member \in request : member[1] = key
    THEN Some((CHOOSE member \in request : member[1] = key)[2])
    ELSE None

\* Value::as_str(): Some for a JSON string only
as_str(v) == IF v[1] = "string" THEN Some(v[2]) ELSE None

\* request.get("display_currency").or_else(|| request.get("displayCurrency"))
\*     .and_then(|v| v.as_str()).unwrap_or("BDT")
display_currency_of(request) ==
    LET snake == Value_get(request, "display_currency")
        found == IF snake /= None THEN snake
                 ELSE Value_get(request, "displayCurrency")
        text == IF found = None THEN None ELSE as_str(found[1])
    IN unwrap_or(text, "BDT")

\* INSERT INTO user_preferences ... ON CONFLICT(user_id) DO UPDATE SET
\* display_currency = ?, updated_at = ?
UpsertPreference(user_id, display_currency, t) ==
    {r \in user_preferences : r.user_id /= user_id}
    \cup {[user_id |-> user_id, display_currency |-> display_currency,
           updated_at |-> t]}

get_preferences(h) ==
    LET auth == from_request_parts(h, now)
        found == {r \in user_preferences : r.user_id = auth.user_id}
    IN IF ~auth.ok
       THEN Respond("get_preferences", h, None, None, auth.status, auth.error)
            /\ OnlyLast
       ELSE IF found /= {}
       THEN LET row == CHOOSE r \in found : TRUE
            IN Respond("get_preferences", h, None, None, 200,
                       [displayCurrency |-> row.display_currency,
                        updatedAt |-> Some(row.updated_at)])
               /\ OnlyLast
       ELSE Respond("get_preferences", h, None, None, 200,
                    [displayCurrency |-> "BDT", updatedAt |-> None])
            /\ OnlyLast

update_preferences(h, request) ==
    LET auth == from_request_parts(h, now)
        display_currency == display_currency_of(request)
        t == FormatDateTime(Utc_now)
    IN IF ~auth.ok
       THEN Respond("update_preferences", h, None, request, auth.status, auth.error)
            /\ OnlyLast
       ELSE /\ user_preferences' = UpsertPreference(auth.user_id, display_currency, t)
            /\ Respond("update_preferences", h, None, request, 200,
                       [displayCurrency |-> display_currency, updatedAt |-> Some(t)])
            /\ OnlyUserPreferences

\* an Option<T> field of a #[derive(Deserialize)] struct read from a JSON
\* object: None when the member is absent and None when it is null
OptionField(body, key) ==
    LET member == Value_get(body, key)
    IN IF member = None \/ member = Some(JsonNull) THEN None
       ELSE Some(member[1][2])

\* the texts a date member carries, by what the parsers make of them: the
\* empty string, decimal digits denoting n, an RFC 3339 date-time of second
\* n, and words no parser accepts
EmptyText == <<"empty", 0>>
Digits(n) == <<"digits", n>>
Rfc3339(n) == <<"rfc3339", n>>
Words == <<"words", 0>>

\* str::parse::<i64>()
parse_i64(s) == IF s[1] = "digits" THEN Some(s[2]) ELSE None
\* DateTime::parse_from_rfc3339(s), with_timezone(&Utc)
parse_from_rfc3339(s) == IF s[1] = "rfc3339" THEN Some(DateTime(s[2], 0)) ELSE None
\* DateTime::from_timestamp(secs, nsecs): None outside the range of DateTime
from_timestamp(secs, nsecs) ==
    IF secs \in (-MaxTimestamp)..MaxTimestamp THEN Some(DateTime(secs, nsecs))
    ELSE None
\* DateTime::from_timestamp_millis(millis): the seconds and the rest, by
\* Euclidean division
from_timestamp_millis(millis) ==
    from_timestamp(millis \div 1000, (millis % 1000) * 1000000)

\* the result of a deserialiser
DeOk(v) == [ok |-> TRUE, value |-> v]
DeErr == [ok |-> FALSE, value |-> None]

\* deserialize_optional_datetime, given the date member of the body if it has
\* one; #[serde(default)] makes an absent member None. The formats are tried
\* in the order of the code: RFC 3339, milliseconds, seconds, then the naive
\* formats, which no text of digits matches
deserialize_optional_datetime(member) ==
    IF member = None \/ member = Some(JsonNull) THEN DeOk(None)
    ELSE LET s == member[1][2]
             timestamp == parse_i64(s)
         IN IF s = EmptyText THEN DeOk(None)
            ELSE IF parse_from_rfc3339(s) /= None THEN DeOk(parse_from_rfc3339(s))
            ELSE IF timestamp /= None /\ from_timestamp_millis(timestamp[1]) /= None
            THEN DeOk(from_timestamp_millis(timestamp[1]))
            ELSE IF timestamp /= None /\ from_timestamp(timestamp[1], 0) /= None
            THEN DeOk(from_timestamp(timestamp[1], 0))
            ELSE DeErr

\* Json<CreateTransactionRequest> for a body with the given date member and
\* the other members of request
CreateTransactionRequest_from_json(request, member) ==
    LET date == deserialize_optional_datetime(member)
    IN IF date.ok THEN DeOk([request EXCEPT !.date = date.value]) ELSE DeErr

\* Json<UpdateLiabilityRequest>: the request update_liability receives for a
\* JSON body
UpdateLiabilityRequest_from_json(body) ==
    [person_name |-> OptionField(body, "person_name"),
     amount |-> OptionField(body, "amount"),
     currency |-> OptionField(body, "currency"),
     due_date |-> OptionField(body, "due_date"),
     is_paid |-> OptionField(body, "is_paid"),
     description |-> OptionField(body, "description"),
     is_historical_entry |-> OptionField(body, "is_historical_entry"),
     account_id |-> OptionField(body, "account_id"),
     transaction_id |-> OptionField(body, "transaction_id")]

\* create_transaction with its body still to be read: the extractors run in
\* the order of the signature, AuthUser before Json, and a body that does not
\* deserialise is rejected with 422 before the handler's own code
create_transaction_json(h, request, member) ==
    LET auth == from_request_parts(h, now)
        de == CreateTransactionRequest_from_json(request, member)
    IN IF auth.ok /\ ~de.ok
       THEN Respond("create_transaction", h, None, None, 422, "Unable to parse date")
            /\ OnlyLast
       ELSE create_transaction(h, IF de.ok THEN de.value ELSE request)

-----------------------------------------------------------------------------
(* Handlers followed await by await: several requests are served at a time, *)
(* each one resting where its code awaits the database.                     *)

Slots == 1..MaxInFlight

\* a slot that serves no request
Idle ==
    [stage |-> "idle", op |-> "", header |-> NoHeader, id |-> "", req |-> None,
     t |-> 0, user_id |-> "", seen |-> {}]

\* the requests of the same operation on the same id that are awaiting their
\* statement
InFlight(op, id) ==
    {inflight[o].req[1] :
       o \in {x \in Slots : /\ inflight[x].stage = "bound"
                            /\ inflight[x].op = op
                            /\ inflight[x].id = id}}

\* the request in the slot has bound its parameters and awaits its statement;
\* seen keeps the requests that were in flight beside it at that moment
Bound(op, h, id, request, user_id) ==
    [stage |-> "bound", op |-> op, header |-> h, id |-> id, req |-> Some(request),
     t |-> FormatDateTime(Utc_now), user_id |-> user_id, seen |-> InFlight(op, id)]

\* a slot is free when it serves no request or has answered the one it served
Free(slot) == inflight[slot].stage \in {"idle", "done"}
\* the request of the slot is answered; the slot keeps what it served
Done(slot) == [inflight EXCEPT ![slot].stage = "done"]

Awaits(slot, op, stage) ==
    inflight[slot].stage = stage /\ inflight[slot].op = op

\* what a step of a request in flight leaves alone: every table, every table
\* but budgets, every table but accounts
FlightOnly ==
    UNCHANGED <<now, users, tokens, user_preferences, accounts, transactions,
                budgets, liabilities, loans, recurring_transactions, savings_goals>>
FlightAndBudgets ==
    UNCHANGED <<now, users, tokens, user_preferences, accounts, transactions,
                liabilities, loans, recurring_transactions, savings_goals>>
FlightAndAccounts ==
    UNCHANGED <<now, users, tokens, user_preferences, transactions,
                budgets, liabilities, loans, recurring_transactions, savings_goals>>

\* update_budget up to the await of its UPDATE: the extractors have run and
\* now has been read
begin_update_budget(slot, h, id, request) ==
    LET auth == from_request_parts(h, now) IN
    /\ Free(slot)
    /\ IF ~auth.ok
       THEN Respond("update_budget", h, Some(id), request, auth.status, auth.error)
            /\ OnlyLast
       ELSE /\ inflight' = [inflight EXCEPT
                              ![slot] = Bound("update_budget", h, id, request,
                                              auth.user_id)]
            /\ FlightOnly
            /\ UNCHANGED last

\* the UPDATE of update_budget, one statement, and the response
finish_update_budget(slot) ==
    LET call == inflight[slot]
        hit == Scoped(budgets, call.id, call.user_id)
    IN /\ Awaits(slot, "update_budget", "bound")
       /\ inflight' = Done(slot)
       /\ IF hit = {}
          THEN Respond("update_budget", call.header, Some(call.id), call.req[1], 404, "")
               /\ FlightOnly
          ELSE /\ budgets' = (budgets \ hit)
                       \cup {UpdateBudgetRow(r, call.req[1], call.t) : r \in hit}
               /\ Respond("update_budget", call.header, Some(call.id), call.req[1], 200,
                          "Budget updated successfully")
               /\ FlightAndBudgets

\* update_account up to the await of its UPDATE; it takes no AuthUser
begin_update_account(slot, h, id, request) ==
    /\ Free(slot)
    /\ inflight' = [inflight EXCEPT
                      ![slot] = Bound("update_account", h, id, request, "")]
    /\ FlightOnly
    /\ UNCHANGED last

\* the UPDATE of update_account, one statement, and the response
finish_update_account(slot) ==
    LET call == inflight[slot]
        hit == {r \in accounts : r.id = call.id}
    IN /\ Awaits(slot, "update_account", "bound")
       /\ inflight' = Done(slot)
       /\ IF hit = {}
          THEN Respond("update_account", call.header, Some(call.id), call.req[1], 404, "")
               /\ FlightOnly
          ELSE /\ accounts' = (accounts \ hit)
                       \cup {UpdateAccountRow(r, call.req[1], call.t) : r \in hit}
               /\ Respond("update_account", call.header, Some(call.id), call.req[1], 200,
                          "Account updated successfully")
               /\ FlightAndAccounts

\* what a step of a registration in flight leaves alone when it stores a user
FlightAndUsers ==
    UNCHANGED <<now, user_preferences, accounts, transactions, budgets,
                liabilities, loans, recurring_transactions, savings_goals>>

\* the request in the slot has had the answer of its SELECT, no user, and
\* awaits its INSERT
Selected(op, req) == [Idle EXCEPT !.stage = "selected", !.op = op, !.req = Some(req)]

\* the INSERT of a registration and the response
InsertUserInFlight(slot, op, user) ==
    /\ Awaits(slot, op, "selected")
    /\ inflight' = Done(slot)
    /\ IF InsertUserResult(user).kind = "ok"
       THEN /\ users' = users \cup {user}
            /\ tokens' = tokens \cup {create_jwt(user.id, now)}
            /\ Respond(op, NoHeader, None, inflight[slot].req[1], 200,
                       AuthResponse(user))
            /\ FlightAndUsers
       ELSE /\ Respond(op, NoHeader, None, inflight[slot].req[1], 500,
                       "Failed to create user")
            /\ FlightOnly

\* signup up to the await of its INSERT: the SELECT by the email as sent
select_signup(slot, name, email, password) ==
    LET req == [name |-> name, email |-> email, password |-> password] IN
    /\ Free(slot)
    /\ IF UsersByEmail(email) /= {}
       THEN Respond("signup", NoHeader, None, req, 409,
                    "User with this email already exists")
            /\ OnlyLast
       ELSE /\ inflight' = [inflight EXCEPT ![slot] = Selected("signup", req)]
            /\ FlightOnly
            /\ UNCHANGED last

\* the INSERT of signup and the response
insert_signup(slot) ==
    LET req == inflight[slot].req[1] IN
    \E fresh \in FreshUserIds :
       InsertUserInFlight(slot, "signup",
                          User_new(req.name, req.email, hash(req.password), fresh))

\* signin up to the await of its INSERT: the SELECT by the trimmed,
\* lower-cased email; a user found is logged in at once
select_signin(slot, name, email_sent, password) ==
    LET req == [name |-> name, email |-> email_sent, password |-> password]
        found == UsersByEmail(trim_to_lowercase(email_sent))
        user == CHOOSE u \in found : TRUE
    IN /\ Free(slot)
       /\ IF found /= {}
          THEN IF ~verify(password, user.password_hash)
               THEN Respond("signin", NoHeader, None, req, 401,
                            "Invalid email or password")
                    /\ OnlyLast
               ELSE /\ tokens' = tokens \cup {create_jwt(user.id, now)}
                    /\ Respond("signin", NoHeader, None, req, 200, AuthResponse(user))
                    /\ UNCHANGED users
                    /\ OnlyUsers
          ELSE IF name = None
          THEN Respond("signin", NoHeader, None, req, 400,
                       "Name is required for new user registration")
               /\ OnlyLast
          ELSE /\ inflight' = [inflight EXCEPT ![slot] = Selected("signin", req)]
               /\ FlightOnly
               /\ UNCHANGED last

\* the INSERT of the registration branch of signin and the response
insert_signin(slot) ==
    LET req == inflight[slot].req[1] IN
    \E fresh \in FreshUserIds :
       InsertUserInFlight(slot, "signin",
                          User_new(req.name[1], trim_to_lowercase(req.email),
                                   hash(req.password), fresh))

-----------------------------------------------------------------------------
(* The initial state and the clock. *)

\* Two users have signed up at time 0 and hold the tokens signup returned;
\* every entity table is empty.
Init ==
    /\ now = 0
    /\ users = {[id |-> "u1", name |-> "A", email |-> "a@x.io",
                 password_hash |-> hash("secret-a"),
                 created_at |-> DateTime(0, 0), updated_at |-> DateTime(0, 0)],
                [id |-> "u2", name |-> "B", email |-> "b@x.io",
                 password_hash |-> hash("secret-b"),
                 created_at |-> DateTime(0, 0), updated_at |-> DateTime(0, 0)]}
    /\ tokens = {create_jwt(u, 0) : u \in UserIds}
    /\ accounts = {}
    /\ transactions = {}
    /\ budgets = {}
    /\ liabilities = {}
    /\ loans = {}
    /\ recurring_transactions = {}
    /\ savings_goals = {}
    /\ user_preferences = {}
    /\ inflight = [slot \in Slots |-> Idle]
    /\ last = [op |-> "init", at |-> 0, header |-> NoHeader, id |-> None,
               req |-> None, status |-> 0, body |-> ""]

\* a second passes
Tick ==
    /\ now < MaxNow
    /\ now' = now + 1
    /\ UNCHANGED <<inflight, user_preferences, users, tokens, accounts, transactions, budgets, liabilities,
                   loans, recurring_transactions, savings_goals, last>>

\* the instants the model watches: the first seconds, and the seconds around
\* the expiry of a token issued in them and around the end of its leeway
Instants ==
    (0..MaxNow)
    \cup {TokenTtl + k : k \in -1..MaxNow}
    \cup {TokenTtl + Leeway + k : k \in -1..(MaxNow + 1)}

\* time passes to a later instant
Elapse ==
    /\ \E t \in Instants : t > now /\ now' = t
    /\ UNCHANGED <<inflight, user_preferences, users, tokens, accounts, transactions, budgets, liabilities,
                   loans, recurring_transactions, savings_goals, last>>

-----------------------------------------------------------------------------
(* The requests the model sends. *)

\* a date-time with a sub-second part, as an RFC 3339 body may carry
Noon == DateTime(1, 5)
Later == DateTime(2, 5)

\* CreateAccountRequest
CreateAccountRequests(ids, types) ==
    {[id |-> i, name |-> "Main", account_type |-> t, balance |-> 100,
      currency |-> None, credit_limit |-> None] : i \in ids, t \in types}
\* UpdateAccountRequest: no field, every field
EmptyAccountUpdate ==
    [name |-> None, account_type |-> None, balance |-> None, currency |-> None,
     credit_limit |-> None]
FullAccountUpdate ==
    [name |-> Some("Renamed"), account_type |-> Some("CreditCard"),
     balance |-> Some(7), currency |-> Some("USD"), credit_limit |-> Some(500)]

\* CreateTransactionRequest
CreateTransactionRequests(account_ids, dates) ==
    {[account_id |-> a, transaction_type |-> "Expense", amount |-> 10,
      currency |-> None, category |-> None, description |-> None, date |-> d]
        : a \in account_ids, d \in dates}
\* UpdateTransactionRequest
EmptyTransactionUpdate ==
    [account_id |-> None, transaction_type |-> None, amount |-> None,
     currency |-> None, category |-> None, description |-> None, date |-> None]
FullTransactionUpdate ==
    [account_id |-> Some("id1"), transaction_type |-> Some("Income"),
     amount |-> Some(7), currency |-> Some("USD"), category |-> Some("food"),
     description |-> Some("edited"), date |-> Some(Later)]

\* CreateBudgetRequest
CreateBudgetRequests(ids) ==
    {[id |-> i, category |-> "food", amount |-> 100, currency |-> None,
      period |-> None] : i \in ids}
\* UpdateBudgetRequest
EmptyBudgetUpdate ==
    [category |-> None, amount |-> None, currency |-> None, period |-> None]
FullBudgetUpdate ==
    [category |-> Some("rent"), amount |-> Some(7), currency |-> Some("USD"),
     period |-> Some("weekly")]

\* CreateLiabilityRequest
CreateLiabilityRequests(ids) ==
    {[id |-> i, person_name |-> "Rahim", amount |-> 100, currency |-> None,
      due_date |-> Noon, is_paid |-> None, description |-> None,
      is_historical_entry |-> None, account_id |-> None,
      transaction_id |-> None] : i \in ids}
\* UpdateLiabilityRequest
EmptyLiabilityUpdate ==
    [person_name |-> None, amount |-> None, currency |-> None, due_date |-> None,
     is_paid |-> None, description |-> None, is_historical_entry |-> None,
     account_id |-> None, transaction_id |-> None]
FullLiabilityUpdate ==
    [person_name |-> Some("Karim"), amount |-> Some(7), currency |-> Some("USD"),
     due_date |-> Some(Later), is_paid |-> Some(TRUE),
     description |-> Some("edited"), is_historical_entry |-> Some(TRUE),
     account_id |-> Some("id1"), transaction_id |-> Some("id2")]

\* CreateLoanRequest
CreateLoanRequests(ids) ==
    {[id |-> i, person_name |-> "Rahim", amount |-> 100, currency |-> None,
      loan_date |-> Noon, return_date |-> None, is_returned |-> None,
      description |-> None, is_historical_entry |-> None, account_id |-> None,
      transaction_id |-> None] : i \in ids}
\* UpdateLoanRequest
EmptyLoanUpdate ==
    [person_name |-> None, amount |-> None, currency |-> None, loan_date |-> None,
     return_date |-> None, is_returned |-> None, description |-> None,
     is_historical_entry |-> None, account_id |-> None, transaction_id |-> None]
FullLoanUpdate ==
    [person_name |-> Some("Karim"), amount |-> Some(7), currency |-> Some("USD"),
     loan_date |-> Some(Later), return_date |-> Some(Later),
     is_returned |-> Some(TRUE), description |-> Some("edited"),
     is_historical_entry |-> Some(TRUE), account_id |-> Some("id1"),
     transaction_id |-> Some("id2")]

\* CreateRecurringTransactionRequest
CreateRecurringTransactionRequests(ids) ==
    {[id |-> i, account_id |-> "id1", transaction_type |-> "expense",
      amount |-> 100, currency |-> None, category |-> None, description |-> None,
      frequency |-> None, start_date |-> Noon, end_date |-> None,
      next_due_date |-> Noon, is_active |-> None, savings_goal_id |-> None]
        : i \in ids}
\* UpdateRecurringTransactionRequest
EmptyRecurringTransactionUpdate ==
    [account_id |-> None, transaction_type |-> None, amount |-> None,
     currency |-> None, category |-> None, description |-> None,
     frequency |-> None, start_date |-> None, end_date |-> None,
     next_due_date |-> None, is_active |-> None, savings_goal_id |-> None]
FullRecurringTransactionUpdate ==
    [account_id |-> Some("id2"), transaction_type |-> Some("income"),
     amount |-> Some(7), currency |-> Some("USD"), category |-> Some("food"),
     description |-> Some("edited"), frequency |-> Some("weekly"),
     start_date |-> Some(Later), end_date |-> Some(Later),
     next_due_date |-> Some(Later), is_active |-> Some(FALSE),
     savings_goal_id |-> Some("id2")]

\* CreateSavingsGoalRequest
CreateSavingsGoalRequests(ids) ==
    {[id |-> i, name |-> "Laptop", target_amount |-> 100, currency |-> None,
      target_date |-> Noon, description |-> None, account_id |-> None,
      priority |-> None] : i \in ids}
\* UpdateSavingsGoalRequest
EmptySavingsGoalUpdate ==
    [name |-> None, target_amount |-> None, current_amount |-> None,
     currency |-> None, target_date |-> None, description |-> None,
     account_id |-> None, priority |-> None, is_completed |-> None]
FullSavingsGoalUpdate ==
    [name |-> Some("Camera"), target_amount |-> Some(7),
     current_amount |-> Some(3), currency |-> Some("USD"),
     target_date |-> Some(Later), description |-> Some("edited"),
     account_id |-> Some("id1"), priority |-> Some("high"),
     is_completed |-> Some(TRUE)]

\* create requests that supply every optional field
FullCreateAccountRequests(ids, types) ==
    {[id |-> i, name |-> "Main", account_type |-> t, balance |-> 100,
      currency |-> Some("USD"), credit_limit |-> Some(500)]
        : i \in ids, t \in types}
FullCreateTransactionRequests(account_ids, dates) ==
    {[account_id |-> a, transaction_type |-> "Income", amount |-> 10,
      currency |-> Some("USD"), category |-> Some("food"),
      description |-> Some("lunch"), date |-> d]
        : a \in account_ids, d \in dates}
FullCreateBudgetRequests(ids) ==
    {[id |-> i, category |-> "food", amount |-> 100, currency |-> Some("USD"),
      period |-> Some("weekly")] : i \in ids}
FullCreateLiabilityRequests(ids) ==
    {[id |-> i, person_name |-> "Rahim", amount |-> 100,
      currency |-> Some("USD"), due_date |-> Noon, is_paid |-> Some(TRUE),
      description |-> Some("rent"), is_historical_entry |-> Some(TRUE),
      account_id |-> Some("id1"), transaction_id |-> Some("id2")] : i \in ids}
FullCreateLoanRequests(ids) ==
    {[id |-> i, person_name |-> "Rahim", amount |-> 100,
      currency |-> Some("USD"), loan_date |-> Noon, return_date |-> Some(Later),
      is_returned |-> Some(TRUE), description |-> Some("rent"),
      is_historical_entry |-> Some(TRUE), account_id |-> Some("id1"),
      transaction_id |-> Some("id2")] : i \in ids}
FullCreateRecurringTransactionRequests(ids) ==
    {[id |-> i, account_id |-> "id1", transaction_type |-> "expense",
      amount |-> 100, currency |-> Some("USD"), category |-> Some("food"),
      description |-> Some("rent"), frequency |-> Some("weekly"),
      start_date |-> Noon, end_date |-> Some(Later), next_due_date |-> Later,
      is_active |-> Some(FALSE), savings_goal_id |-> Some("id2")] : i \in ids}
FullCreateSavingsGoalRequests(ids) ==
    {[id |-> i, name |-> "Laptop", target_amount |-> 100,
      currency |-> Some("USD"), target_date |-> Noon,
      description |-> Some("work"), account_id |-> Some("id1"),
      priority |-> Some("high")] : i \in ids}

\* the bodies sent to update_preferences: no member at all, either spelling of
\* the display currency, a null and a number in its place, and a body that
\* carries some other member only
PreferenceBodies ==
    {{},
     {<<"display_currency", JsonString("USD")>>},
     {<<"displayCurrency", JsonString("EUR")>>},
     {<<"display_currency", JsonString("BDT")>>},
     {<<"display_currency", JsonNull>>},
     {<<"displayCurrency", JsonNumber("5")>>},
     {<<"theme", JsonString("dark")>>}}

\* what a JSON body can say about one nullable member: nothing, null, a text
MemberChoices(key, text) ==
    {{}, {<<key, JsonNull>>}, {<<key, JsonString(text)>>}}

\* the bodies sent to update_liability: each nullable member omitted, null
\* or set, and the name of the person omitted or set
UpdateLiabilityBodies ==
    {d \cup a \cup t \cup p :
        d \in MemberChoices("description", "paid back"),
        a \in MemberChoices("account_id", "id2"),
        t \in MemberChoices("transaction_id", "id1"),
        p \in {{}, {<<"person_name", JsonString("Karim")>>}}}

\* create requests whose ordering date is one of the given dates
DatedLiabilityRequests(ids, dates) ==
    {[r EXCEPT !.due_date = d] : r \in CreateLiabilityRequests(ids), d \in dates}
DatedLoanRequests(ids, dates) ==
    {[r EXCEPT !.loan_date = d] : r \in CreateLoanRequests(ids), d \in dates}
DatedSavingsGoalRequests(ids, dates) ==
    {[r EXCEPT !.target_date = d] : r \in CreateSavingsGoalRequests(ids), d \in dates}

\* the date members sent to create_transaction: none, null, the empty string,
\* epoch seconds and epoch milliseconds of the instants the model watches, a
\* number beyond the range of DateTime, an RFC 3339 date-time and words
SecondsTexts == {Digits(n) : n \in 1..MaxNow}
MillisTexts == {Digits(1000 * n + k) : n \in 1..MaxNow, k \in {0, 500}}
DateMembers ==
    {None, Some(JsonNull), Some(JsonString(EmptyText)),
     Some(JsonString(Digits(1000 * (MaxTimestamp + 1)))),
     Some(JsonString(Rfc3339(MaxNow))), Some(JsonString(Words))}
    \cup {Some(JsonString(s)) : s \in SecondsTexts \cup MillisTexts}

\* update requests that supply one field, and two
BudgetCategoryOnly == [EmptyBudgetUpdate EXCEPT !.category = Some("rent")]
BudgetAmountOnly == [EmptyBudgetUpdate EXCEPT !.amount = Some(7)]
BudgetCategoryAndAmount ==
    [EmptyBudgetUpdate EXCEPT !.category = Some("travel"), !.amount = Some(9)]
AccountNameOnly == [EmptyAccountUpdate EXCEPT !.name = Some("Renamed")]
AccountBalanceOnly == [EmptyAccountUpdate EXCEPT !.balance = Some(7)]
AccountNameAndBalance ==
    [EmptyAccountUpdate EXCEPT !.name = Some("Spare"), !.balance = Some(9)]

-----------------------------------------------------------------------------
(* Specifications. *)

\* Tokens: issuing, ageing and presenting them to a protected handler.
NextAuth ==
    \/ \E e \in Emails, p \in Passwords :
          login(e, p) /\ Cardinality(tokens') <= MaxTokens
    \/ Elapse
    \/ \E h \in Headers : get_accounts(h)
SpecAuth == Init /\ [][NextAuth]_vars

\* the id the rows read, updated and deleted by id are created with
HeldIds == {"id1"}

\* Access by id: every entity's create, get, update and delete.
NextAccess ==
    \/ \E h \in SessionHeaders, r \in CreateAccountRequests({Some("id1")}, {"Bank"}) :
          create_account(h, r) /\ Within(MaxHeld, MaxHeld)
    \/ \E h \in SessionHeaders, id \in HeldIds : get_account(h, id)
    \/ \E h \in SessionHeaders, id \in HeldIds :
          update_account(h, id, FullAccountUpdate)
    \/ \E h \in SessionHeaders, id \in HeldIds : delete_account(h, id)
    \/ \E h \in SessionHeaders, r \in CreateTransactionRequests({"id1"}, {None}) :
          create_transaction(h, r) /\ Within(MaxHeld, MaxHeld)
    \/ \E h \in SessionHeaders, id \in Ids : get_transaction(h, id)
    \/ \E h \in SessionHeaders, id \in Ids :
          update_transaction(h, id, FullTransactionUpdate)
    \/ \E h \in SessionHeaders, id \in Ids : delete_transaction(h, id)
    \/ \E h \in SessionHeaders, r \in CreateBudgetRequests({Some("id1")}) :
          create_budget(h, r) /\ Within(MaxHeld, MaxHeld)
    \/ \E h \in SessionHeaders, id \in HeldIds : get_budget(h, id)
    \/ \E h \in SessionHeaders, id \in HeldIds :
          update_budget(h, id, FullBudgetUpdate)
    \/ \E h \in SessionHeaders, id \in HeldIds : delete_budget(h, id)
    \/ \E h \in SessionHeaders, r \in CreateLiabilityRequests({Some("id1")}) :
          create_liability(h, r) /\ Within(MaxHeld, MaxHeld)
    \/ \E h \in SessionHeaders, id \in HeldIds : get_liability(h, id)
    \/ \E h \in SessionHeaders, id \in HeldIds :
          update_liability(h, id, FullLiabilityUpdate)
    \/ \E h \in SessionHeaders, id \in HeldIds : delete_liability(h, id)
    \/ \E h \in SessionHeaders, r \in CreateLoanRequests({Some("id1")}) :
          create_loan(h, r) /\ Within(MaxHeld, MaxHeld)
    \/ \E h \in SessionHeaders, id \in HeldIds : get_loan(h, id)
    \/ \E h \in SessionHeaders, id \in HeldIds :
          update_loan(h, id, FullLoanUpdate)
    \/ \E h \in SessionHeaders, id \in HeldIds : delete_loan(h, id)
    \/ \E h \in SessionHeaders, r \in CreateRecurringTransactionRequests({Some("id1")}) :
          create_recurring_transaction(h, r) /\ Within(MaxHeld, MaxHeld)
    \/ \E h \in SessionHeaders, id \in HeldIds : get_recurring_transaction(h, id)
    \/ \E h \in SessionHeaders, id \in HeldIds :
          update_recurring_transaction(h, id, FullRecurringTransactionUpdate)
    \/ \E h \in SessionHeaders, id \in HeldIds : delete_recurring_transaction(h, id)
    \/ \E h \in SessionHeaders, r \in CreateSavingsGoalRequests({Some("id1")}) :
          create_savings_goal(h, r) /\ Within(MaxHeld, MaxHeld)
    \/ \E h \in SessionHeaders, id \in HeldIds : get_savings_goal(h, id)
    \/ \E h \in SessionHeaders, id \in HeldIds :
          update_savings_goal(h, id, FullSavingsGoalUpdate)
    \/ \E h \in SessionHeaders, id \in HeldIds : delete_savings_goal(h, id)
SpecAccess == Init /\ [][NextAccess]_vars


\* the headers of clients that send their token
BearerHeaders == {Bearer(tok) : tok \in tokens}

\* the ids callers supply on create
SuppliedIds == {Some(i) : i \in Ids}

\* Listing: every entity's create and its two list handlers.
NextList ==
    \/ \E h \in SessionHeaders, r \in CreateAccountRequests(SuppliedIds, {"Bank", "MobileBanking"}) :
          create_account(h, r) /\ Within(MaxRows, MaxHeld)
    \/ \E h \in SessionHeaders : get_accounts(h)
    \/ \E h \in SessionHeaders : get_user_accounts(h)
    \/ \E h \in SessionHeaders, r \in CreateTransactionRequests({"id1"}, {None}) :
          create_transaction(h, r) /\ Within(MaxRows, MaxHeld)
    \/ \E h \in SessionHeaders : get_transactions(h)
    \/ \E h \in SessionHeaders : get_user_transactions(h)
    \/ \E h \in SessionHeaders, r \in CreateBudgetRequests({Some("id1")}) :
          create_budget(h, r) /\ Within(MaxRows, MaxHeld)
    \/ \E h \in SessionHeaders : get_budgets(h)
    \/ \E h \in SessionHeaders : get_user_budgets(h)
    \/ \E h \in SessionHeaders, r \in CreateLiabilityRequests({Some("id1")}) :
          create_liability(h, r) /\ Within(MaxRows, MaxHeld)
    \/ \E h \in SessionHeaders : get_liabilities(h)
    \/ \E h \in SessionHeaders : get_user_liabilities(h)
    \/ \E h \in SessionHeaders, r \in CreateLoanRequests({Some("id1")}) :
          create_loan(h, r) /\ Within(MaxRows, MaxHeld)
    \/ \E h \in SessionHeaders : get_loans(h)
    \/ \E h \in SessionHeaders : get_user_loans(h)
    \/ \E h \in SessionHeaders, r \in CreateRecurringTransactionRequests({Some("id1")}) :
          create_recurring_transaction(h, r) /\ Within(MaxRows, MaxHeld)
    \/ \E h \in SessionHeaders : get_recurring_transactions(h)
    \/ \E h \in SessionHeaders : get_user_recurring_transactions(h)
    \/ \E h \in SessionHeaders, r \in CreateSavingsGoalRequests({Some("id1")}) :
          create_savings_goal(h, r) /\ Within(MaxRows, MaxHeld)
    \/ \E h \in SessionHeaders : get_savings_goals(h)
    \/ \E h \in SessionHeaders : get_user_savings_goals(h)
SpecList == Init /\ [][NextList]_vars

\* Creating: every entity's create, with and without a caller-supplied id.
NextCreate ==
    \/ \E h \in SessionHeaders, r \in CreateAccountRequests(OptIds, {"Bank"}) :
          create_account(h, r) /\ Within(MaxRows, MaxHeld)
    \/ \E h \in SessionHeaders, r \in CreateTransactionRequests({"id1"}, {None}) :
          create_transaction(h, r) /\ Within(MaxRows, MaxHeld)
    \/ \E h \in SessionHeaders, r \in CreateBudgetRequests(OptIds) :
          create_budget(h, r) /\ Within(MaxRows, MaxHeld)
    \/ \E h \in SessionHeaders, r \in CreateLiabilityRequests(OptIds) :
          create_liability(h, r) /\ Within(MaxRows, MaxHeld)
    \/ \E h \in SessionHeaders, r \in CreateLoanRequests(OptIds) :
          create_loan(h, r) /\ Within(MaxRows, MaxHeld)
    \/ \E h \in SessionHeaders, r \in CreateRecurringTransactionRequests(OptIds) :
          create_recurring_transaction(h, r) /\ Within(MaxRows, MaxHeld)
    \/ \E h \in SessionHeaders, r \in CreateSavingsGoalRequests(OptIds) :
          create_savings_goal(h, r) /\ Within(MaxRows, MaxHeld)
SpecCreate == Init /\ [][NextCreate]_vars

\* Updating: every entity's create and update, with no field and with all.
NextUpdate ==
    \/ \E h \in BearerHeaders, r \in CreateAccountRequests({Some("id1")}, {"Bank"}) :
          create_account(h, r) /\ Within(MaxHeld, MaxHeld)
    \/ \E h \in BearerHeaders, id \in HeldIds,
          r \in {EmptyAccountUpdate, FullAccountUpdate} : update_account(h, id, r)
    \/ \E h \in BearerHeaders, r \in CreateTransactionRequests({"id1"}, {None}) :
          create_transaction(h, r) /\ Within(MaxHeld, MaxHeld)
    \/ \E h \in BearerHeaders, id \in Ids,
          r \in {EmptyTransactionUpdate, FullTransactionUpdate} : update_transaction(h, id, r)
    \/ \E h \in BearerHeaders, r \in CreateBudgetRequests({Some("id1")}) :
          create_budget(h, r) /\ Within(MaxHeld, MaxHeld)
    \/ \E h \in BearerHeaders, id \in HeldIds,
          r \in {EmptyBudgetUpdate, FullBudgetUpdate} : update_budget(h, id, r)
    \/ \E h \in BearerHeaders, r \in CreateLiabilityRequests({Some("id1")}) :
          create_liability(h, r) /\ Within(MaxHeld, MaxHeld)
    \/ \E h \in BearerHeaders, id \in HeldIds,
          r \in {EmptyLiabilityUpdate, FullLiabilityUpdate} : update_liability(h, id, r)
    \/ \E h \in BearerHeaders, r \in CreateLoanRequests({Some("id1")}) :
          create_loan(h, r) /\ Within(MaxHeld, MaxHeld)
    \/ \E h \in BearerHeaders, id \in HeldIds,
          r \in {EmptyLoanUpdate, FullLoanUpdate} : update_loan(h, id, r)
    \/ \E h \in BearerHeaders, r \in CreateRecurringTransactionRequests({Some("id1")}) :
          create_recurring_transaction(h, r) /\ Within(MaxHeld, MaxHeld)
    \/ \E h \in BearerHeaders, id \in HeldIds,
          r \in {EmptyRecurringTransactionUpdate, FullRecurringTransactionUpdate} : update_recurring_transaction(h, id, r)
    \/ \E h \in BearerHeaders, r \in CreateSavingsGoalRequests({Some("id1")}) :
          create_savings_goal(h, r) /\ Within(MaxHeld, MaxHeld)
    \/ \E h \in BearerHeaders, id \in HeldIds,
          r \in {EmptySavingsGoalUpdate, FullSavingsGoalUpdate} : update_savings_goal(h, id, r)
SpecUpdate == Init /\ [][NextUpdate]_vars

\* Touching: every entity's create and empty update, as time passes.
NextTouch ==
    \/ Tick
    \/ \E h \in BearerHeaders, r \in CreateAccountRequests({Some("id1")}, {"Bank"}) :
          create_account(h, r) /\ Within(MaxHeld, MaxHeld)
    \/ \E h \in BearerHeaders, id \in HeldIds :
          update_account(h, id, EmptyAccountUpdate)
    \/ \E h \in BearerHeaders, r \in CreateTransactionRequests({"id1"}, {None}) :
          create_transaction(h, r) /\ Within(MaxHeld, MaxHeld)
    \/ \E h \in BearerHeaders, id \in Ids :
          update_transaction(h, id, EmptyTransactionUpdate)
    \/ \E h \in BearerHeaders, r \in CreateBudgetRequests({Some("id1")}) :
          create_budget(h, r) /\ Within(MaxHeld, MaxHeld)
    \/ \E h \in BearerHeaders, id \in HeldIds :
          update_budget(h, id, EmptyBudgetUpdate)
    \/ \E h \in BearerHeaders, r \in CreateLiabilityRequests({Some("id1")}) :
          create_liability(h, r) /\ Within(MaxHeld, MaxHeld)
    \/ \E h \in BearerHeaders, id \in HeldIds :
          update_liability(h, id, EmptyLiabilityUpdate)
    \/ \E h \in BearerHeaders, r \in CreateLoanRequests({Some("id1")}) :
          create_loan(h, r) /\ Within(MaxHeld, MaxHeld)
    \/ \E h \in BearerHeaders, id \in HeldIds :
          update_loan(h, id, EmptyLoanUpdate)
    \/ \E h \in BearerHeaders, r \in CreateRecurringTransactionRequests({Some("id1")}) :
          create_recurring_transaction(h, r) /\ Within(MaxHeld, MaxHeld)
    \/ \E h \in BearerHeaders, id \in HeldIds :
          update_recurring_transaction(h, id, EmptyRecurringTransactionUpdate)
    \/ \E h \in BearerHeaders, r \in CreateSavingsGoalRequests({Some("id1")}) :
          create_savings_goal(h, r) /\ Within(MaxHeld, MaxHeld)
    \/ \E h \in BearerHeaders, id \in HeldIds :
          update_savings_goal(h, id, EmptySavingsGoalUpdate)
SpecTouch == Init /\ [][NextTouch]_vars


\* the ids a round trip creates with: one drawn by the server, one supplied
RoundTripIds == {None, Some("id1")}

\* Round trips: every entity's create, with the optional fields omitted and
\* with all of them supplied, and its get by id.
NextRoundTrip ==
    \/ \E h \in BearerHeaders,
          r \in CreateAccountRequests(RoundTripIds, {"MobileBanking"})
                \cup FullCreateAccountRequests(RoundTripIds, {"Cash"}) :
          create_account(h, r) /\ Within(MaxHeld, MaxHeld)
    \/ \E h \in BearerHeaders, id \in Ids : get_account(h, id)
    \/ \E h \in BearerHeaders,
          r \in CreateTransactionRequests({"id1"}, {None})
                \cup FullCreateTransactionRequests({"id1"}, {Some(Noon)}) :
          create_transaction(h, r) /\ Within(MaxHeld, MaxHeld)
    \/ \E h \in BearerHeaders, id \in Ids : get_transaction(h, id)
    \/ \E h \in BearerHeaders,
          r \in CreateBudgetRequests(RoundTripIds)
                \cup FullCreateBudgetRequests(RoundTripIds) :
          create_budget(h, r) /\ Within(MaxHeld, MaxHeld)
    \/ \E h \in BearerHeaders, id \in Ids : get_budget(h, id)
    \/ \E h \in BearerHeaders,
          r \in CreateLiabilityRequests(RoundTripIds)
                \cup FullCreateLiabilityRequests(RoundTripIds) :
          create_liability(h, r) /\ Within(MaxHeld, MaxHeld)
    \/ \E h \in BearerHeaders, id \in Ids : get_liability(h, id)
    \/ \E h \in BearerHeaders,
          r \in CreateLoanRequests(RoundTripIds)
                \cup FullCreateLoanRequests(RoundTripIds) :
          create_loan(h, r) /\ Within(MaxHeld, MaxHeld)
    \/ \E h \in BearerHeaders, id \in Ids : get_loan(h, id)
    \/ \E h \in BearerHeaders,
          r \in CreateRecurringTransactionRequests(RoundTripIds)
                \cup FullCreateRecurringTransactionRequests(RoundTripIds) :
          create_recurring_transaction(h, r) /\ Within(MaxHeld, MaxHeld)
    \/ \E h \in BearerHeaders, id \in Ids : get_recurring_transaction(h, id)
    \/ \E h \in BearerHeaders,
          r \in CreateSavingsGoalRequests(RoundTripIds)
                \cup FullCreateSavingsGoalRequests(RoundTripIds) :
          create_savings_goal(h, r) /\ Within(MaxHeld, MaxHeld)
    \/ \E h \in BearerHeaders, id \in Ids : get_savings_goal(h, id)
SpecRoundTrip == Init /\ [][NextRoundTrip]_vars

\* Deleting: every entity's create, get, empty update, delete and lists.
NextDelete ==
    \/ \E h \in BearerHeaders, r \in CreateAccountRequests({Some("id1")}, {"Bank"}) :
          create_account(h, r) /\ Within(MaxHeld, MaxHeld)
    \/ \E h \in BearerHeaders, id \in HeldIds : get_account(h, id)
    \/ \E h \in BearerHeaders, id \in HeldIds :
          update_account(h, id, EmptyAccountUpdate)
    \/ \E h \in BearerHeaders, id \in HeldIds : delete_account(h, id)
    \/ \E h \in BearerHeaders : get_accounts(h)
    \/ \E h \in BearerHeaders : get_user_accounts(h)
    \/ \E h \in BearerHeaders, r \in CreateTransactionRequests({"id1"}, {None}) :
          create_transaction(h, r) /\ Within(MaxHeld, MaxHeld)
    \/ \E h \in BearerHeaders, id \in Ids : get_transaction(h, id)
    \/ \E h \in BearerHeaders, id \in Ids :
          update_transaction(h, id, EmptyTransactionUpdate)
    \/ \E h \in BearerHeaders, id \in Ids : delete_transaction(h, id)
    \/ \E h \in BearerHeaders : get_transactions(h)
    \/ \E h \in BearerHeaders : get_user_transactions(h)
    \/ \E h \in BearerHeaders, r \in CreateBudgetRequests({Some("id1")}) :
          create_budget(h, r) /\ Within(MaxHeld, MaxHeld)
    \/ \E h \in BearerHeaders, id \in HeldIds : get_budget(h, id)
    \/ \E h \in BearerHeaders, id \in HeldIds :
          update_budget(h, id, EmptyBudgetUpdate)
    \/ \E h \in BearerHeaders, id \in HeldIds : delete_budget(h, id)
    \/ \E h \in BearerHeaders : get_budgets(h)
    \/ \E h \in BearerHeaders : get_user_budgets(h)
    \/ \E h \in BearerHeaders, r \in CreateLiabilityRequests({Some("id1")}) :
          create_liability(h, r) /\ Within(MaxHeld, MaxHeld)
    \/ \E h \in BearerHeaders, id \in HeldIds : get_liability(h, id)
    \/ \E h \in BearerHeaders, id \in HeldIds :
          update_liability(h, id, EmptyLiabilityUpdate)
    \/ \E h \in BearerHeaders, id \in HeldIds : delete_liability(h, id)
    \/ \E h \in BearerHeaders : get_liabilities(h)
    \/ \E h \in BearerHeaders : get_user_liabilities(h)
    \/ \E h \in BearerHeaders, r \in CreateLoanRequests({Some("id1")}) :
          create_loan(h, r) /\ Within(MaxHeld, MaxHeld)
    \/ \E h \in BearerHeaders, id \in HeldIds : get_loan(h, id)
    \/ \E h \in BearerHeaders, id \in HeldIds :
          update_loan(h, id, EmptyLoanUpdate)
    \/ \E h \in BearerHeaders, id \in HeldIds : delete_loan(h, id)
    \/ \E h \in BearerHeaders : get_loans(h)
    \/ \E h \in BearerHeaders : get_user_loans(h)
    \/ \E h \in BearerHeaders, r \in CreateRecurringTransactionRequests({Some("id1")}) :
          create_recurring_transaction(h, r) /\ Within(MaxHeld, MaxHeld)
    \/ \E h \in BearerHeaders, id \in HeldIds : get_recurring_transaction(h, id)
    \/ \E h \in BearerHeaders, id \in HeldIds :
          update_recurring_transaction(h, id, EmptyRecurringTransactionUpdate)
    \/ \E h \in BearerHeaders, id \in HeldIds : delete_recurring_transaction(h, id)
    \/ \E h \in BearerHeaders : get_recurring_transactions(h)
    \/ \E h \in BearerHeaders : get_user_recurring_transactions(h)
    \/ \E h \in BearerHeaders, r \in CreateSavingsGoalRequests({Some("id1")}) :
          create_savings_goal(h, r) /\ Within(MaxHeld, MaxHeld)
    \/ \E h \in BearerHeaders, id \in HeldIds : get_savings_goal(h, id)
    \/ \E h \in BearerHeaders, id \in HeldIds :
          update_savings_goal(h, id, EmptySavingsGoalUpdate)
    \/ \E h \in BearerHeaders, id \in HeldIds : delete_savings_goal(h, id)
    \/ \E h \in BearerHeaders : get_savings_goals(h)
    \/ \E h \in BearerHeaders : get_user_savings_goals(h)
SpecDelete == Init /\ [][NextDelete]_vars

\* Signing: sign-up, sign-in and login, while the users table has room.
NextSign ==
    \/ \E n \in Names, e \in SignEmails, p \in Passwords :
          signup(n, e, p) /\ Cardinality(users') <= MaxUsers
    \/ \E n \in OptNames, e \in SignEmails, p \in Passwords :
          signin(n, e, p) /\ Cardinality(users') <= MaxUsers
    \/ \E e \in Emails \cup SignEmails, p \in Passwords : login(e, p)
SpecSign == Init /\ [][NextSign]_vars

\* Preferences: the two handlers of handlers/preference.rs, as time passes.
NextPreferences ==
    \/ \E h \in SessionHeaders, b \in PreferenceBodies : update_preferences(h, b)
    \/ \E h \in SessionHeaders : get_preferences(h)
    \/ Tick

SpecPreferences == Init /\ [][NextPreferences]_vars

\* Clearing: liabilities created with and without their nullable members,
\* then updated from JSON bodies.
NextClear ==
    \/ \E h \in BearerHeaders,
          r \in CreateLiabilityRequests({Some("id1")})
                \cup FullCreateLiabilityRequests({Some("id1")}) :
          create_liability(h, r) /\ Within(MaxHeld, MaxHeld)
    \/ \E h \in BearerHeaders, id \in {"id1"}, body \in UpdateLiabilityBodies :
          update_liability(h, id, UpdateLiabilityRequest_from_json(body))
    \/ \E h \in BearerHeaders, id \in {"id1"} : get_liability(h, id)
    \/ \E h \in BearerHeaders, id \in {"id1"} : delete_liability(h, id)

SpecClear == Init /\ [][NextClear]_vars

\* the headers of the users stored from the start
FirstHeaders == {Bearer(tok) : tok \in {t \in tokens : t.sub \in UserIds}}

\* Stamping: the tables with both timestamps; a user signs up, rows are
\* created and updated with no field and with every field, as time passes.
NextStamp ==
    \/ Tick
    \/ \E n \in Names, e \in {"c@x.io"}, p \in {"secret-a"} :
          signup(n, e, p) /\ Cardinality(users') <= MaxUsers
    \/ \E h \in FirstHeaders, r \in CreateAccountRequests({Some("id1")}, {"Bank"}) :
          create_account(h, r) /\ RowCount' <= MaxHeld
    \/ \E h \in FirstHeaders, id \in HeldIds,
          r \in {EmptyAccountUpdate, FullAccountUpdate} : update_account(h, id, r)
    \/ \E h \in FirstHeaders, r \in CreateBudgetRequests({Some("id1")}) :
          create_budget(h, r) /\ RowCount' <= MaxHeld
    \/ \E h \in FirstHeaders, id \in HeldIds,
          r \in {EmptyBudgetUpdate, FullBudgetUpdate} : update_budget(h, id, r)
    \/ \E h \in FirstHeaders, r \in CreateLiabilityRequests({Some("id1")}) :
          create_liability(h, r) /\ RowCount' <= MaxHeld
    \/ \E h \in FirstHeaders, id \in HeldIds,
          r \in {EmptyLiabilityUpdate, FullLiabilityUpdate} : update_liability(h, id, r)
    \/ \E h \in FirstHeaders, r \in CreateLoanRequests({Some("id1")}) :
          create_loan(h, r) /\ RowCount' <= MaxHeld
    \/ \E h \in FirstHeaders, id \in HeldIds,
          r \in {EmptyLoanUpdate, FullLoanUpdate} : update_loan(h, id, r)
    \/ \E h \in FirstHeaders, r \in CreateRecurringTransactionRequests({Some("id1")}) :
          create_recurring_transaction(h, r) /\ RowCount' <= MaxHeld
    \/ \E h \in FirstHeaders, id \in HeldIds,
          r \in {EmptyRecurringTransactionUpdate, FullRecurringTransactionUpdate} :
          update_recurring_transaction(h, id, r)
    \/ \E h \in FirstHeaders, r \in CreateSavingsGoalRequests({Some("id1")}) :
          create_savings_goal(h, r) /\ RowCount' <= MaxHeld
    \/ \E h \in FirstHeaders, id \in HeldIds,
          r \in {EmptySavingsGoalUpdate, FullSavingsGoalUpdate} :
          update_savings_goal(h, id, r)

SpecStamp == Init /\ [][NextStamp]_vars

\* Keys: every entity's create with an id supplied or drawn, its update with
\* every field and its delete, by either user; a user signs up.
NextKeys ==
    \/ \E n \in Names, e \in {"c@x.io"}, p \in {"secret-a"} :
          signup(n, e, p) /\ Cardinality(users') <= MaxUsers
             /\ \A u \in users' : u.id \in UserIds \cup {"u3"}
    \/ \E h \in FirstHeaders, r \in CreateAccountRequests(RoundTripIds, {"Bank"}) :
          create_account(h, r) /\ RowCount' <= MaxRows
    \/ \E h \in FirstHeaders, id \in HeldIds : update_account(h, id, FullAccountUpdate)
    \/ \E h \in FirstHeaders, id \in Ids : delete_account(h, id)
    \/ \E h \in FirstHeaders, r \in CreateTransactionRequests({"id1"}, {None}) :
          create_transaction(h, r) /\ RowCount' <= MaxRows
    \/ \E h \in FirstHeaders, id \in HeldIds : update_transaction(h, id, FullTransactionUpdate)
    \/ \E h \in FirstHeaders, id \in Ids : delete_transaction(h, id)
    \/ \E h \in FirstHeaders, r \in CreateBudgetRequests(RoundTripIds) :
          create_budget(h, r) /\ RowCount' <= MaxRows
    \/ \E h \in FirstHeaders, id \in HeldIds : update_budget(h, id, FullBudgetUpdate)
    \/ \E h \in FirstHeaders, id \in Ids : delete_budget(h, id)
    \/ \E h \in FirstHeaders, r \in CreateLiabilityRequests(RoundTripIds) :
          create_liability(h, r) /\ RowCount' <= MaxRows
    \/ \E h \in FirstHeaders, id \in HeldIds : update_liability(h, id, FullLiabilityUpdate)
    \/ \E h \in FirstHeaders, id \in Ids : delete_liability(h, id)
    \/ \E h \in FirstHeaders, r \in CreateLoanRequests(RoundTripIds) :
          create_loan(h, r) /\ RowCount' <= MaxRows
    \/ \E h \in FirstHeaders, id \in HeldIds : update_loan(h, id, FullLoanUpdate)
    \/ \E h \in FirstHeaders, id \in Ids : delete_loan(h, id)
    \/ \E h \in FirstHeaders, r \in CreateRecurringTransactionRequests(RoundTripIds) :
          create_recurring_transaction(h, r) /\ RowCount' <= MaxRows
    \/ \E h \in FirstHeaders, id \in HeldIds : update_recurring_transaction(h, id, FullRecurringTransactionUpdate)
    \/ \E h \in FirstHeaders, id \in Ids : delete_recurring_transaction(h, id)
    \/ \E h \in FirstHeaders, r \in CreateSavingsGoalRequests(RoundTripIds) :
          create_savings_goal(h, r) /\ RowCount' <= MaxRows
    \/ \E h \in FirstHeaders, id \in HeldIds : update_savings_goal(h, id, FullSavingsGoalUpdate)
    \/ \E h \in FirstHeaders, id \in Ids : delete_savings_goal(h, id)

SpecKeys == Init /\ [][NextKeys]_vars

\* the headers of one user
OwnerHeaders == {Bearer(tok) : tok \in {t \in tokens : t.sub = "u1"}}

\* Ordering: rows with different dates, created at different times, and the
\* two list handlers of each entity whose order is by a date of the row,
\* called by their owner.
NextOrder ==
    \/ Tick
    \/ \E h \in OwnerHeaders, r \in CreateAccountRequests({Some("id1")}, {"Bank"}) :
          create_account(h, r) /\ Within(MaxHeld, MaxRows)
    \/ \E h \in OwnerHeaders,
          r \in CreateTransactionRequests({"id1"}, {Some(Noon), Some(Later)}) :
          create_transaction(h, r) /\ Within(MaxHeld, MaxRows)
    \/ \E h \in OwnerHeaders : get_transactions(h)
    \/ \E h \in OwnerHeaders : get_user_transactions(h)
    \/ \E h \in OwnerHeaders, r \in DatedLiabilityRequests({None}, {Noon, Later}) :
          create_liability(h, r) /\ Within(MaxHeld, MaxRows)
    \/ \E h \in OwnerHeaders : get_liabilities(h)
    \/ \E h \in OwnerHeaders : get_user_liabilities(h)
    \/ \E h \in OwnerHeaders, r \in DatedLoanRequests({None}, {Noon, Later}) :
          create_loan(h, r) /\ Within(MaxHeld, MaxRows)
    \/ \E h \in OwnerHeaders : get_loans(h)
    \/ \E h \in OwnerHeaders : get_user_loans(h)
    \/ \E h \in OwnerHeaders, r \in DatedSavingsGoalRequests({None}, {Noon, Later}) :
          create_savings_goal(h, r) /\ Within(MaxHeld, MaxRows)
    \/ \E h \in OwnerHeaders : get_savings_goals(h)
    \/ \E h \in OwnerHeaders : get_user_savings_goals(h)

SpecOrder == Init /\ [][NextOrder]_vars

\* Dates: transactions created from bodies with every kind of date member,
\* as time passes.
NextDates ==
    \/ Tick
    \/ \E h \in OwnerHeaders, r \in CreateAccountRequests({Some("id1")}, {"Bank"}) :
          create_account(h, r) /\ Within(MaxHeld, MaxHeld)
    \/ \E h \in OwnerHeaders, r \in CreateTransactionRequests({"id1"}, {None}),
          member \in DateMembers :
          create_transaction_json(h, r, member) /\ Within(MaxHeld, MaxHeld)
    \/ \E h \in OwnerHeaders, id \in Ids : get_transaction(h, id)
    \/ \E h \in OwnerHeaders, id \in Ids : delete_transaction(h, id)

SpecDates == Init /\ [][NextDates]_vars

\* Racing updates: a budget and an account of one user, and updates of them
\* by that user that overlap in time.
NextRace ==
    \/ \E h \in OwnerHeaders, r \in CreateBudgetRequests({Some("id1")}) :
          create_budget(h, r) /\ Within(MaxHeld, MaxHeld)
    \/ \E h \in OwnerHeaders, r \in CreateAccountRequests({Some("id1")}, {"Bank"}) :
          create_account(h, r) /\ Within(MaxHeld, MaxHeld)
    \/ \E slot \in Slots, h \in OwnerHeaders, id \in HeldIds,
          r \in {BudgetCategoryOnly, BudgetAmountOnly, BudgetCategoryAndAmount} :
          begin_update_budget(slot, h, id, r)
    \/ \E slot \in Slots : finish_update_budget(slot)
    \/ \E slot \in Slots, h \in OwnerHeaders, id \in HeldIds,
          r \in {AccountNameOnly, AccountBalanceOnly, AccountNameAndBalance} :
          begin_update_account(slot, h, id, r)
    \/ \E slot \in Slots : finish_update_account(slot)

SpecRace == Init /\ [][NextRace]_vars

\* UpdateTransactionRequest: the account alone
MoveTransactionRequests(account_ids) ==
    {[EmptyTransactionUpdate EXCEPT !.account_id = Some(a)] : a \in account_ids}

\* Owners: two users create accounts, create transactions on an account id
\* and move transactions to an account id.
NextOwner ==
    \/ \E h \in BearerHeaders, r \in CreateAccountRequests(SuppliedIds, {"Bank"}) :
          create_account(h, r) /\ Within(MaxRows, MaxRows)
    \/ \E h \in BearerHeaders, r \in CreateTransactionRequests(Ids, {None}) :
          create_transaction(h, r) /\ Within(MaxRows, MaxRows)
    \/ \E h \in BearerHeaders, id \in Ids, r \in MoveTransactionRequests(Ids) :
          update_transaction(h, id, r)
    \/ \E h \in BearerHeaders : get_user_transactions(h)
SpecOwner == Init /\ [][NextOwner]_vars

\* UpdateAccountRequest: the account type alone
RetypeAccountRequests(types) ==
    {[EmptyAccountUpdate EXCEPT !.account_type = Some(t)] : t \in types}

\* Account types: accounts of every type are created, every type is written
\* by an update, and the owner lists the accounts.
NextTypes ==
    \/ \E h \in BearerHeaders, r \in CreateAccountRequests(SuppliedIds, AccountTypes) :
          create_account(h, r) /\ Within(MaxRows, MaxRows)
    \/ \E h \in BearerHeaders, id \in Ids, r \in RetypeAccountRequests(AccountTypes) :
          update_account(h, id, r)
    \/ \E h \in BearerHeaders : get_user_accounts(h)
SpecTypes == Init /\ [][NextTypes]_vars

\* References: accounts are created and deleted, transactions are created on
\* and moved to account ids that exist or not, liabilities and loans are
\* created.
NextCascade ==
    \/ \E h \in BearerHeaders, r \in CreateAccountRequests(SuppliedIds, {"Bank"}) :
          create_account(h, r) /\ Within(MaxRows, MaxRows)
    \/ \E h \in BearerHeaders, id \in Ids : delete_account(h, id)
    \/ \E h \in BearerHeaders, r \in CreateTransactionRequests(Ids, {None}) :
          create_transaction(h, r) /\ Within(MaxRows, MaxRows)
    \/ \E h \in BearerHeaders, id \in Ids, r \in MoveTransactionRequests(Ids) :
          update_transaction(h, id, r)
    \/ \E h \in BearerHeaders, r \in CreateLiabilityRequests({None}) :
          create_liability(h, r) /\ Within(MaxRows, MaxRows)
    \/ \E h \in BearerHeaders, r \in CreateLoanRequests({None}) :
          create_loan(h, r) /\ Within(MaxRows, MaxRows)
SpecCascade == Init /\ [][NextCascade]_vars

\* the emails racing registrations carry: a new one, the new one capitalised
\* and padded, and the one of the first user
RaceEmails == {"c@x.io", " C@x.io ", "a@x.io"}

\* Registering: sign-ups and sign-ins served at the same time, each one
\* resting between its SELECT and its INSERT.
NextRegister ==
    \/ \E slot \in Slots, n \in Names, e \in RaceEmails, p \in Passwords :
          select_signup(slot, n, e, p)
    \/ \E slot \in Slots : insert_signup(slot) /\ Cardinality(users') <= MaxUsers
    \/ \E slot \in Slots, n \in OptNames, e \in RaceEmails, p \in Passwords :
          select_signin(slot, n, e, p)
    \/ \E slot \in Slots : insert_signin(slot) /\ Cardinality(users') <= MaxUsers
SpecRegister == Init /\ [][NextRegister]_vars

\* the users the failing runs let sign up: one beside the two of Init
FewUsers == \A u \in users' : u.id \in UserIds \cup {"u3"}

\* Failing: requests that are refused for their header, name a row that is
\* not there or not the caller's, an id in use, an account that does not
\* exist, an email in use or a wrong password, beside the ones that succeed.
NextFail ==
    \/ \E h \in SessionHeaders, r \in CreateAccountRequests({Some("id1")}, {"Bank"}) :
          create_account(h, r) /\ Within(MaxHeld, MaxHeld)
    \/ \E h \in SessionHeaders, id \in Ids : update_account(h, id, EmptyAccountUpdate)
    \/ \E h \in SessionHeaders, id \in Ids : delete_account(h, id)
    \/ \E h \in SessionHeaders, r \in CreateTransactionRequests(Ids, {None}) :
          create_transaction(h, r) /\ Within(MaxHeld, MaxHeld)
    \/ \E h \in SessionHeaders, id \in Ids, r \in MoveTransactionRequests(Ids) :
          update_transaction(h, id, r)
    \/ \E h \in SessionHeaders, id \in Ids : delete_transaction(h, id)
    \/ \E h \in SessionHeaders, r \in CreateBudgetRequests({Some("id1")}) :
          create_budget(h, r) /\ Within(MaxHeld, MaxHeld)
    \/ \E h \in SessionHeaders, id \in Ids : delete_budget(h, id)
    \/ \E h \in SessionHeaders, r \in CreateLiabilityRequests({Some("id1")}) :
          create_liability(h, r) /\ Within(MaxHeld, MaxHeld)
    \/ \E h \in SessionHeaders, id \in Ids :
          update_liability(h, id, FullLiabilityUpdate)
    \/ \E n \in Names, e \in {"a@x.io", "c@x.io"}, p \in {"secret-a"} :
          signup(n, e, p) /\ FewUsers
    \/ \E e \in {"a@x.io", "nobody@x.io"}, p \in Passwords : login(e, p)
    \/ \E n \in OptNames, e \in {"a@x.io", " C@x.io "}, p \in Passwords :
          signin(n, e, p) /\ FewUsers
SpecFail == Init /\ [][NextFail]_vars

-----------------------------------------------------------------------------
(* Properties: access by id. *)

\* the step is a handler serving one of ops; last' holds its request and response
Serves(ops) == now' = now /\ last'.op \in ops
\* the principal the extractor makes of the served request's header, "" if none
Caller == from_request_parts(last'.header, now).user_id

AccountByIdOps == {"get_account", "update_account", "delete_account"}

\* the served request names the id of a row of table that the caller,
\* an authenticated principal, does not own
ForeignRow(table) ==
    /\ Caller /= ""
    /\ \E E \in table : E.id = last'.id[1] /\ E.user_id /= Caller
\* the served request names an id that no row of table has
NoSuchRow(table) ==
    /\ Caller /= ""
    /\ \A E \in table : E.id /= last'.id[1]
\* the response is the bare 404 and the table is as it was
NotFoundUntouched(table) ==
    /\ last'.status = 404
    /\ last'.body = ""
    /\ table' = table

\* C1: when an authenticated principal B calls get_account, update_account or
\* delete_account with the id of an account another principal A created, the
\* call fails with 404 and the stored account is unchanged.
C1_AccountCrossPrincipal ==
    [][(Serves(AccountByIdOps) /\ ForeignRow(accounts))
         => NotFoundUntouched(accounts)]_vars

\* the by-id operations of one scoped entity treat a foreign row as they treat
\* a missing one
Isolated(ops, table) ==
    (Serves(ops) /\ (ForeignRow(table) \/ NoSuchRow(table)))
        => NotFoundUntouched(table)

\* C2: for Transaction, Budget, Liability, Loan, RecurringTransaction and
\* SavingsGoal, get, update and delete called by a principal B with the id of
\* a row owned by another principal A answer 404, exactly as for an id no row
\* has, and leave the row unchanged.
C2_ScopedCrossPrincipal ==
    [][/\ Isolated({"get_transaction", "update_transaction",
                    "delete_transaction"}, transactions)
       /\ Isolated({"get_budget", "update_budget", "delete_budget"}, budgets)
       /\ Isolated({"get_liability", "update_liability", "delete_liability"},
                   liabilities)
       /\ Isolated({"get_loan", "update_loan", "delete_loan"}, loans)
       /\ Isolated({"get_recurring_transaction", "update_recurring_transaction",
                    "delete_recurring_transaction"}, recurring_transactions)
       /\ Isolated({"get_savings_goal", "update_savings_goal",
                    "delete_savings_goal"}, savings_goals)]_vars

\* the principal of the last request served
LastCaller == from_request_parts(last.header, last.at).user_id

\* a principal has been answered 404 on updating a loan another principal owns
C2_Witness ==
    /\ last.op = "update_loan"
    /\ last.status = 404
    /\ LastCaller /= ""
    /\ \E E \in loans : E.id = last.id[1] /\ E.user_id /= LastCaller

ByIdOps ==
    {"get_account", "update_account", "delete_account",
     "get_transaction", "update_transaction", "delete_transaction",
     "get_budget", "update_budget", "delete_budget",
     "get_liability", "update_liability", "delete_liability",
     "get_loan", "update_loan", "delete_loan",
     "get_recurring_transaction", "update_recurring_transaction",
     "delete_recurring_transaction",
     "get_savings_goal", "update_savings_goal", "delete_savings_goal"}

\* C3: every get-by-id, update and delete of a user-owned resource answers 401
\* and changes and returns no stored row when the request carries no valid
\* bearer token.
C3_ByIdNeedsToken ==
    [][(Serves(ByIdOps) /\ ~from_request_parts(last'.header, now).ok)
         => (last'.status = 401 /\ tables' = tables)]_vars

-----------------------------------------------------------------------------
(* Properties: the extractor and the tokens. *)

\* the header is there, reads "Bearer " first, and the rest verifies at time t
Acceptable(h, t) ==
    h.present /\ h.prefix = "Bearer " /\ verify_jwt(h.rest, t).ok

\* C4: the extractor yields a principal exactly when the Authorization header
\* is present, starts with "Bearer " and its remainder passes verify_jwt; the
\* principal's user_id is then the token's sub; otherwise the request is
\* answered 401, as a protected handler shows.
C4_ExtractorAcceptsIff ==
    /\ \A h \in Headers :
         LET r == from_request_parts(h, now) IN
         /\ r.ok <=> Acceptable(h, now)
         /\ r.ok => r.user_id = h.rest.sub
         /\ ~r.ok => r.status = 401
    /\ last.op = "get_accounts" =>
         /\ last.status = 200 <=> Acceptable(last.header, last.at)
         /\ last.status /= 200 => last.status = 401

\* a protected handler has turned away a well-formed, correctly signed token
\* sent under another scheme
C4_Witness ==
    /\ last.op = "get_accounts"
    /\ last.status = 401
    /\ last.header.prefix = "Basic "
    /\ verify_jwt(last.header.rest, last.at).ok

\* C5: verify_jwt rejects every token whose exp is earlier than the current
\* time, correctly signed ones included, and a request carrying such a token
\* is answered 401.
C5_ExpiredTokenRejected ==
    /\ \A tok \in tokens : tok.exp < now => ~verify_jwt(tok, now).ok
    /\ (last.op = "get_accounts" /\ last.header.present
        /\ last.header.rest.exp < last.at) => last.status = 401

\* C6: a token create_jwt issues for user u carries sub = u, iat = the time of
\* issue and exp = iat + 86400, and verify_jwt accepts it with sub = u at every
\* time before exp.
C6_IssueVerifyRoundTrip ==
    /\ (last.op = "login" /\ last.status = 200) =>
         LET tok == last.body.token IN
         /\ tok.sub = last.body.user.id
         /\ \E u \in users : u.email = last.req.email /\ u.id = tok.sub
         /\ tok.iat = last.at
         /\ tok.exp = tok.iat + 86400
         /\ tok \in tokens
    /\ \A tok \in tokens :
         now < tok.exp =>
           /\ verify_jwt(tok, now).ok
           /\ verify_jwt(tok, now).sub = tok.sub
           /\ from_request_parts(Bearer(tok), now).user_id = tok.sub

\* a token issued by login is verified a second before it expires
C6_Witness ==
    /\ last.op = "login"
    /\ last.status = 200
    /\ now = last.body.token.exp - 1
    /\ verify_jwt(last.body.token, now).ok

-----------------------------------------------------------------------------
(* Properties: lists. *)

ListOps ==
    {"get_accounts", "get_transactions", "get_budgets", "get_liabilities",
     "get_loans", "get_recurring_transactions", "get_savings_goals",
     "get_user_accounts", "get_user_transactions", "get_user_budgets",
     "get_user_liabilities", "get_user_loans",
     "get_user_recurring_transactions", "get_user_savings_goals"}

\* the table a list operation reads
ListedTable(op) ==
    CASE op \in {"get_accounts", "get_user_accounts"} -> accounts
      [] op \in {"get_transactions", "get_user_transactions"} -> transactions
      [] op \in {"get_budgets", "get_user_budgets"} -> budgets
      [] op \in {"get_liabilities", "get_user_liabilities"} -> liabilities
      [] op \in {"get_loans", "get_user_loans"} -> loans
      [] op \in {"get_recurring_transactions",
                 "get_user_recurring_transactions"} -> recurring_transactions
      [] op \in {"get_savings_goals", "get_user_savings_goals"} -> savings_goals

\* C7: every list operation called by a principal P succeeds and returns
\* exactly the rows whose user_id is P, each once: none of another principal's,
\* none of P's missing, and the empty list when P owns none.
C7_ListReturnsOwnRows ==
    (last.op \in ListOps /\ LastCaller /= "") =>
        /\ last.status = 200
        /\ {last.body[i].id : i \in DOMAIN last.body}
             = {r.id : r \in OwnedBy(ListedTable(last.op), LastCaller)}
        /\ \A i \in DOMAIN last.body : last.body[i].user_id = LastCaller
        /\ Len(last.body)
             = Cardinality(OwnedBy(ListedTable(last.op), LastCaller))

-----------------------------------------------------------------------------
(* Properties: create with an id in use. *)

CreateWithIdOps ==
    {"create_account", "create_budget", "create_liability", "create_loan",
     "create_recurring_transaction", "create_savings_goal"}

\* the table a create operation writes
CreatedTable(op) ==
    CASE op = "create_account" -> accounts
      [] op = "create_budget" -> budgets
      [] op = "create_liability" -> liabilities
      [] op = "create_loan" -> loans
      [] op = "create_recurring_transaction" -> recurring_transactions
      [] op = "create_savings_goal" -> savings_goals

\* C10: create with a caller-supplied id that a row of the entity's table
\* already has answers 409, for Account, Budget, Liability, Loan,
\* RecurringTransaction and SavingsGoal, and leaves every row as it was.
C10_DuplicateIdConflict ==
    [][(/\ Serves(CreateWithIdOps)
        /\ Caller /= ""
        /\ last'.req.id /= None
        /\ \E E \in CreatedTable(last'.op) : E.id = last'.req.id[1])
         => (last'.status = 409 /\ tables' = tables)]_vars

-----------------------------------------------------------------------------
(* Properties: updates. *)

UpdateOps ==
    {"update_account", "update_transaction", "update_budget", "update_liability",
     "update_loan", "update_recurring_transaction", "update_savings_goal"}

\* the table an update operation writes
UpdatedTable(op) ==
    CASE op = "update_account" -> accounts
      [] op = "update_transaction" -> transactions
      [] op = "update_budget" -> budgets
      [] op = "update_liability" -> liabilities
      [] op = "update_loan" -> loans
      [] op = "update_recurring_transaction" -> recurring_transactions
      [] op = "update_savings_goal" -> savings_goals

\* the updatable fields of each entity, by the kind of value they hold:
\* NOT NULL text, number or flag
PlainFields(op) ==
    CASE op = "update_account" -> {"name", "balance", "currency"}
      [] op = "update_transaction" -> {"account_id", "amount", "currency"}
      [] op = "update_budget" -> {"category", "amount", "currency", "period"}
      [] op = "update_liability" ->
           {"person_name", "amount", "currency", "is_paid", "is_historical_entry"}
      [] op = "update_loan" ->
           {"person_name", "amount", "currency", "is_returned",
            "is_historical_entry"}
      [] op = "update_recurring_transaction" ->
           {"account_id", "transaction_type", "amount", "currency", "frequency",
            "is_active"}
      [] op = "update_savings_goal" ->
           {"name", "target_amount", "current_amount", "currency", "priority",
            "is_completed"}
\* an enum, sent and stored by name
EnumFields(op) ==
    CASE op = "update_account" -> {"account_type"}
      [] op = "update_transaction" -> {"transaction_type"}
      [] OTHER -> {}
\* nullable text or number
NullableFields(op) ==
    CASE op = "update_account" -> {"credit_limit"}
      [] op = "update_transaction" -> {"category", "description"}
      [] op = "update_budget" -> {}
      [] op = "update_liability" -> {"description", "account_id", "transaction_id"}
      [] op = "update_loan" -> {"description", "account_id", "transaction_id"}
      [] op = "update_recurring_transaction" ->
           {"category", "description", "savings_goal_id"}
      [] op = "update_savings_goal" -> {"description", "account_id"}
\* NOT NULL date-time
DateFields(op) ==
    CASE op = "update_transaction" -> {"date"}
      [] op = "update_liability" -> {"due_date"}
      [] op = "update_loan" -> {"loan_date"}
      [] op = "update_recurring_transaction" -> {"start_date", "next_due_date"}
      [] op = "update_savings_goal" -> {"target_date"}
      [] OTHER -> {}
\* nullable date-time
OptDateFields(op) ==
    CASE op = "update_loan" -> {"return_date"}
      [] op = "update_recurring_transaction" -> {"end_date"}
      [] OTHER -> {}

\* a date-time cut to its whole second
WholeSecond(d) == DateTime(d.secs, 0)
\* a date-time as supplied
AsSupplied(d) == d

\* a supplied date-time as the row is claimed to hold it: cut to its whole
\* second, or as supplied
Stored(d, whole) == IF whole THEN WholeSecond(d) ELSE AsSupplied(d)

\* new is old with the fields request supplies set to the supplied values, a
\* supplied date-time being stored as Stored(it, whole), and everything else
\* kept
MergedRow(op, old, new, request, whole) ==
    /\ new.id = old.id
    /\ new.user_id = old.user_id
    /\ new.created_at = old.created_at
    /\ \A f \in PlainFields(op) :
         new[f] = IF request[f] = None THEN old[f] ELSE request[f][1]
    /\ \A f \in EnumFields(op) :
         new[f] = IF request[f] = None THEN old[f] ELSE SerdeName(request[f][1])
    /\ \A f \in NullableFields(op) :
         new[f] = IF request[f] = None THEN old[f] ELSE request[f]
    /\ \A f \in DateFields(op) :
         IF request[f] = None THEN new[f] = old[f]
         ELSE StoredDateTime(new[f]) = Stored(request[f][1], whole)
    /\ \A f \in OptDateFields(op) :
         IF request[f] = None THEN new[f] = old[f]
         ELSE new[f] /= None /\ StoredDateTime(new[f][1]) = Stored(request[f][1], whole)

\* a successful update has merged its request into the row it names and has
\* left the other rows of the table alone
UpdateMerges(whole) ==
    \A op \in UpdateOps :
        (Serves({op}) /\ last'.status = 200) =>
            \E old \in UpdatedTable(op) :
                /\ old.id = last'.id[1]
                /\ \E new \in UpdatedTable(op)' :
                     /\ MergedRow(op, old, new, last'.req, whole)
                     /\ UpdatedTable(op)' \ {new} = UpdatedTable(op) \ {old}

\* C8: after a successful update the fields supplied with non-null values
\* equal the supplied values, and every other business field, the id, the
\* owning user_id and created_at are as before the update.
C8_UpdateSetsSuppliedValues == [][UpdateMerges(FALSE)]_vars

\* C8 as the code has it: the same, a supplied date-time being stored cut to
\* its whole second.
C8_UpdateMergesToTheSecond == [][UpdateMerges(TRUE)]_vars

\* a savings goal has been updated with every field, its target date supplied
\* with a sub-second part
C8_Witness ==
    /\ last.op = "update_savings_goal"
    /\ last.status = 200
    /\ last.req = FullSavingsGoalUpdate
    /\ last.req.target_date[1].nanos /= 0
    /\ \E row \in savings_goals :
         row.id = last.id[1] /\ row.name = "Camera" /\ row.target_date = 2

\* the request of an update operation that supplies no field
EmptyUpdate(op) ==
    CASE op = "update_account" -> EmptyAccountUpdate
      [] op = "update_transaction" -> EmptyTransactionUpdate
      [] op = "update_budget" -> EmptyBudgetUpdate
      [] op = "update_liability" -> EmptyLiabilityUpdate
      [] op = "update_loan" -> EmptyLoanUpdate
      [] op = "update_recurring_transaction" -> EmptyRecurringTransactionUpdate
      [] op = "update_savings_goal" -> EmptySavingsGoalUpdate

\* the row's fields other than updated_at
Business(row) == [f \in DOMAIN row \ {"updated_at"} |-> row[f]]

\* the step serves op with no field supplied, called by the owner of old
EmptyUpdateByOwner(op, old) ==
    /\ Serves({op})
    /\ last'.req = EmptyUpdate(op)
    /\ old.id = last'.id[1]
    /\ Caller /= ""
    /\ old.user_id = Caller

\* the update succeeded and put new in the place of old, the business fields
\* kept
Touched(op, old, new) ==
    /\ last'.status = 200
    /\ UpdatedTable(op)' = (UpdatedTable(op) \ {old}) \cup {new}
    /\ Business(new) = Business(old)

-----------------------------------------------------------------------------
(* Properties: create and get. *)

CreateOps ==
    {"create_account", "create_transaction", "create_budget", "create_liability",
     "create_loan", "create_recurring_transaction", "create_savings_goal"}

\* the get by id of the entity a create operation makes
GetOf(op) ==
    CASE op = "create_account" -> "get_account"
      [] op = "create_transaction" -> "get_transaction"
      [] op = "create_budget" -> "get_budget"
      [] op = "create_liability" -> "get_liability"
      [] op = "create_loan" -> "get_loan"
      [] op = "create_recurring_transaction" -> "get_recurring_transaction"
      [] op = "create_savings_goal" -> "get_savings_goal"

\* the table a create operation writes, the one of create_transaction included
MadeTable(op) ==
    IF op = "create_transaction" THEN transactions ELSE CreatedTable(op)

\* the fields of a create payload, by the kind of value they hold:
\* required text or number
GivenFields(op) ==
    CASE op = "create_account" -> {"name", "balance"}
      [] op = "create_transaction" -> {"account_id", "amount"}
      [] op = "create_budget" -> {"category", "amount"}
      [] op = "create_liability" -> {"person_name", "amount"}
      [] op = "create_loan" -> {"person_name", "amount"}
      [] op = "create_recurring_transaction" ->
           {"account_id", "transaction_type", "amount"}
      [] op = "create_savings_goal" -> {"name", "target_amount"}
\* a required enum, sent and returned by name
GivenEnums(op) ==
    CASE op = "create_account" -> {"account_type"}
      [] op = "create_transaction" -> {"transaction_type"}
      [] OTHER -> {}
\* a required date-time
GivenDates(op) ==
    CASE op = "create_liability" -> {"due_date"}
      [] op = "create_loan" -> {"loan_date"}
      [] op = "create_recurring_transaction" -> {"start_date", "next_due_date"}
      [] op = "create_savings_goal" -> {"target_date"}
      [] OTHER -> {}
\* optional, with a documented default
DefaultedFields(op) ==
    CASE op = "create_account" -> {"currency"}
      [] op = "create_transaction" -> {"currency"}
      [] op = "create_budget" -> {"currency", "period"}
      [] op = "create_liability" -> {"currency", "is_paid", "is_historical_entry"}
      [] op = "create_loan" -> {"currency", "is_returned", "is_historical_entry"}
      [] op = "create_recurring_transaction" ->
           {"currency", "frequency", "is_active"}
      [] op = "create_savings_goal" -> {"currency", "priority"}
\* optional and nullable: text, number or link
OptionalFields(op) ==
    CASE op = "create_account" -> {"credit_limit"}
      [] op = "create_transaction" -> {"category", "description"}
      [] op = "create_budget" -> {}
      [] op = "create_liability" -> {"description", "account_id", "transaction_id"}
      [] op = "create_loan" -> {"description", "account_id", "transaction_id"}
      [] op = "create_recurring_transaction" ->
           {"category", "description", "savings_goal_id"}
      [] op = "create_savings_goal" -> {"description", "account_id"}
\* optional and nullable date-time
OptionalDates(op) ==
    CASE op = "create_loan" -> {"return_date"}
      [] op = "create_recurring_transaction" -> {"end_date"}
      [] OTHER -> {}

\* the documented default of an optional field
DocumentedDefault(f) ==
    CASE f = "currency" -> "BDT"
      [] f \in {"period", "frequency"} -> "monthly"
      [] f = "priority" -> "medium"
      [] f \in {"is_paid", "is_returned", "is_historical_entry"} -> FALSE
      [] f = "is_active" -> TRUE

\* got is what the payload request of op asked for: the supplied fields as
\* supplied, a date-time as Stored(it, whole), the omitted ones at their
\* defaults
AsRequested(op, got, request, whole) ==
    /\ \A f \in GivenFields(op) : got[f] = request[f]
    /\ \A f \in GivenEnums(op) : got[f] = SerdeName(request[f])
    /\ \A f \in GivenDates(op) :
         StoredDateTime(got[f]) = Stored(request[f], whole)
    /\ \A f \in DefaultedFields(op) :
         got[f] = IF request[f] = None THEN DocumentedDefault(f)
                  ELSE request[f][1]
    /\ \A f \in OptionalFields(op) : got[f] = request[f]
    /\ \A f \in OptionalDates(op) :
         IF request[f] = None THEN got[f] = None
         ELSE got[f] /= None
              /\ StoredDateTime(got[f][1]) = Stored(request[f][1], whole)
    /\ op = "create_transaction" =>
         IF request.date = None THEN got.date = got.created_at
         ELSE StoredDateTime(got.date) = Stored(request.date[1], whole)
    /\ op = "create_savings_goal" =>
         (got.is_completed = FALSE /\ got.current_amount = 0)

\* the step is the get by id that follows a successful create of op at once:
\* the same principal asks for the id the create returned
GetsWhatWasCreated(op) ==
    /\ last.op = op
    /\ last.status = 200
    /\ Serves({GetOf(op)})
    /\ Caller = LastCaller
    /\ last'.id = Some(last.body.id)

\* the get succeeds with a row the caller owns, holding what the payload asked
RoundTrip(whole, stamped) ==
    \A op \in CreateOps :
        GetsWhatWasCreated(op) =>
            /\ last'.status = 200
            /\ last'.body.id = last.body.id
            /\ \/ "id" \notin DOMAIN last.req
               \/ last.req.id \in {None, Some(last'.body.id)}
            /\ \E row \in MadeTable(op) :
                 row.id = last'.body.id /\ row.user_id = Caller
            /\ AsRequested(op, last'.body, last.req, whole)
            /\ IF op \in stamped
               THEN /\ "updated_at" \in DOMAIN last'.body
                    /\ last'.body.created_at = last'.body.updated_at
               ELSE "created_at" \in DOMAIN last'.body

-----------------------------------------------------------------------------
(* Properties: delete. *)

Entities ==
    {"account", "transaction", "budget", "liability", "loan",
     "recurring_transaction", "savings_goal"}

\* the table of an entity
EntityTable(e) ==
    CASE e = "account" -> accounts
      [] e = "transaction" -> transactions
      [] e = "budget" -> budgets
      [] e = "liability" -> liabilities
      [] e = "loan" -> loans
      [] e = "recurring_transaction" -> recurring_transactions
      [] e = "savings_goal" -> savings_goals

\* the operations of an entity
EntityOps(e) ==
    CASE e = "account" ->
           [create |-> "create_account", get |-> "get_account",
            update |-> "update_account", delete |-> "delete_account",
            lists |-> {"get_accounts", "get_user_accounts"}]
      [] e = "transaction" ->
           [create |-> "create_transaction", get |-> "get_transaction",
            update |-> "update_transaction", delete |-> "delete_transaction",
            lists |-> {"get_transactions", "get_user_transactions"}]
      [] e = "budget" ->
           [create |-> "create_budget", get |-> "get_budget",
            update |-> "update_budget", delete |-> "delete_budget",
            lists |-> {"get_budgets", "get_user_budgets"}]
      [] e = "liability" ->
           [create |-> "create_liability", get |-> "get_liability",
            update |-> "update_liability", delete |-> "delete_liability",
            lists |-> {"get_liabilities", "get_user_liabilities"}]
      [] e = "loan" ->
           [create |-> "create_loan", get |-> "get_loan",
            update |-> "update_loan", delete |-> "delete_loan",
            lists |-> {"get_loans", "get_user_loans"}]
      [] e = "recurring_transaction" ->
           [create |-> "create_recurring_transaction",
            get |-> "get_recurring_transaction",
            update |-> "update_recurring_transaction",
            delete |-> "delete_recurring_transaction",
            lists |-> {"get_recurring_transactions",
                       "get_user_recurring_transactions"}]
      [] e = "savings_goal" ->
           [create |-> "create_savings_goal", get |-> "get_savings_goal",
            update |-> "update_savings_goal", delete |-> "delete_savings_goal",
            lists |-> {"get_savings_goals", "get_user_savings_goals"}]

\* the ids the rows of a table have
IdsOf(table) == {r.id : r \in table}

\* a delete that succeeds leaves no row with the id it named
DeleteRemoves(e) ==
    (Serves({EntityOps(e).delete}) /\ last'.status = 200)
        => last'.id[1] \notin IdsOf(EntityTable(e)')
\* a delete naming an id of no row the caller owns answers 404 and removes
\* nothing
DeleteOfNoOwnRow(e) ==
    (/\ Serves({EntityOps(e).delete})
     /\ Caller /= ""
     /\ last'.id[1] \notin IdsOf(OwnedBy(EntityTable(e), Caller)))
        => (last'.status = 404 /\ tables' = tables)
\* get, update and delete of an id no row has answer 404 and add no row
GoneIsNotFound(e) ==
    (/\ Serves({EntityOps(e).get, EntityOps(e).update, EntityOps(e).delete})
     /\ Caller /= ""
     /\ last'.id[1] \notin IdsOf(EntityTable(e)))
        => (last'.status = 404 /\ EntityTable(e)' = EntityTable(e))
\* an id comes into the table through a successful create only
OnlyCreateBrings(e) ==
    \/ IdsOf(EntityTable(e)') \subseteq IdsOf(EntityTable(e))
    \/ Serves({EntityOps(e).create}) /\ last'.status = 200
\* a list shows no row that is not in the table as the caller's
ListShowsStoredOnly(e) ==
    (Serves(EntityOps(e).lists) /\ last'.status = 200)
        => \A i \in DOMAIN last'.body :
             last'.body[i].id \in IdsOf(OwnedBy(EntityTable(e), Caller))

\* all of the above for the entities es
DeleteIsFinal(es) ==
    \A e \in es :
        /\ DeleteRemoves(e)
        /\ DeleteOfNoOwnRow(e)
        /\ GoneIsNotFound(e)
        /\ OnlyCreateBrings(e)
        /\ ListShowsStoredOnly(e)

\* C12: after a successful delete the row is gone until a create with its id
\* succeeds (get, update and delete of the id answer 404, no list shows the
\* row, and nothing but a successful create brings the id back), and a delete
\* whose id matches no row the caller owns answers 404 and removes nothing.
C12_DeleteIsFinal == [][DeleteIsFinal(Entities)]_vars

-----------------------------------------------------------------------------
(* Properties: sign-up, login and sign-in. *)

\* the users whose stored email is exactly email
Registered(email) == {u \in users : u.email = email}

\* the step stored exactly one user, new, and answered 200 with a token that
\* verifies and whose subject is new's id
StoredOneAndIssued(new) ==
    /\ new \notin users
    /\ new.id \notin {u.id : u \in users}
    /\ users' = users \cup {new}
    /\ last'.status = 200
    /\ verify_jwt(last'.body.token, now).ok
    /\ last'.body.token.sub = new.id
    /\ last'.body.user.id = new.id

\* the step stored nothing and issued nothing
NothingStored == users' = users /\ tokens' = tokens /\ tables' = tables

\* C13: signup with an email a user row already has answers 409 and leaves
\* the users table unchanged; signup with an email not yet present stores
\* exactly one new user row and returns a token whose subject is the new
\* user's id.
C13_SignupConflictOrOneUser ==
    [][Serves({"signup"}) =>
         IF Registered(last'.req.email) /= {}
         THEN last'.status = 409 /\ NothingStored
         ELSE \E new \in users' :
                /\ StoredOneAndIssued(new)
                /\ new.email = last'.req.email
                /\ new.name = last'.req.name]_vars

\* a user who signed up after the first two exists, and a second signup with
\* that user's email has been answered 409
C13_Witness ==
    /\ last.op = "signup"
    /\ last.status = 409
    /\ \E u \in users : u.id \notin UserIds /\ u.email = last.req.email

\* C14: login answers an unknown email exactly as it answers a known email
\* with a wrong password, 401 with the one message, and no login request
\* changes a stored row.
C14_LoginTellsNothing ==
    [][Serves({"login"}) =>
         /\ users' = users
         /\ tables' = tables
         /\ (\/ Registered(last'.req.email) = {}
             \/ \E u \in Registered(last'.req.email) :
                  ~verify(last'.req.password, u.password_hash))
              => /\ last'.status = 401
                 /\ last'.body = "Invalid email or password"]_vars

\* a login with a known email and the other user's password has been refused
C14_Witness ==
    /\ last.op = "login"
    /\ last.status = 401
    /\ last.body = "Invalid email or password"
    /\ \E u \in users :
         u.email = last.req.email /\ ~verify(last.req.password, u.password_hash)

\* no user's email is email, however it is capitalised and padded
Unregistered(email) ==
    \A u \in users : trim_to_lowercase(u.email) /= trim_to_lowercase(email)

\* the three cases of signin
SigninCases ==
    Serves({"signin"}) =>
        /\ (Unregistered(last'.req.email) /\ last'.req.name /= None)
             => \E new \in users' :
                  StoredOneAndIssued(new) /\ new.name = last'.req.name[1]
        /\ \A u \in Registered(last'.req.email) :
             IF verify(last'.req.password, u.password_hash)
             THEN /\ last'.status = 200
                  /\ last'.body.token.sub = u.id
                  /\ verify_jwt(last'.body.token, now).ok
                  /\ users' = users
             ELSE /\ last'.status = 401
                  /\ NothingStored

\* C15: signin with an unknown email, a password and a name creates exactly
\* one user and returns a token whose subject is that user's id; with a known
\* email and the correct password it returns a token for the existing user
\* and creates no user row; with a known email and a wrong password it
\* answers 401 and changes nothing.
C15_SigninThreeCases == [][SigninCases]_vars

\* C16: signin with an email that matches no user and with no name answers
\* 400, creates no user row and issues no token.
C16_SigninNeedsName ==
    [][(/\ Serves({"signin"})
        /\ last'.req.name = None
        /\ \A u \in users : u.email /= trim_to_lowercase(last'.req.email))
         => (last'.status = 400 /\ NothingStored)]_vars

\* a signin for a padded, capitalised email no user has, sent without a name,
\* has been refused
C16_Witness ==
    /\ last.op = "signin"
    /\ last.status = 400
    /\ last.req.name = None
    /\ last.req.email = " C@x.io "
    /\ \A u \in users : u.email /= "c@x.io"

-----------------------------------------------------------------------------
(* Properties: preferences. *)

\* the body names the display currency under neither spelling
NoDisplayCurrencyField(request) ==
    /\ Value_get(request, "display_currency") = None
    /\ Value_get(request, "displayCurrency") = None

\* the display currency stored for a user, if any
StoredDisplayCurrency(prefs, user_id) ==
    {r.display_currency : r \in {x \in prefs : x.user_id = user_id}}

\* C17: update_preferences with a body that contains no display-currency
\* field leaves the principal's stored display_currency unchanged: it is not
\* reset to the default "BDT".
C17_UpdateWithoutCurrencyKeepsIt ==
    [][(/\ last'.op = "update_preferences"
        /\ last'.status = 200
        /\ NoDisplayCurrencyField(last'.req))
       => LET principal == from_request_parts(last'.header, now).user_id
          IN StoredDisplayCurrency(user_preferences, principal) /= {}
             => StoredDisplayCurrency(user_preferences', principal)
                = StoredDisplayCurrency(user_preferences, principal)]_vars

-----------------------------------------------------------------------------
(* Properties: null and absent members of an update. *)

\* the nullable columns of liabilities that an update can set
NullableOfLiability == {"description", "account_id", "transaction_id"}

\* the JSON bodies that reach update_liability as the request last served
BodiesOfLast ==
    {body \in UpdateLiabilityBodies :
       UpdateLiabilityRequest_from_json(body) = last'.req}

\* a successful update_liability has just been served
UpdatedLiability ==
    /\ last'.op = "update_liability"
    /\ last'.status = 200

\* the row the update was applied to, before and after
LiabilityBefore ==
    CHOOSE r \in liabilities :
      r.id = last'.id[1] /\ r.user_id = from_request_parts(last'.header, now).user_id
LiabilityAfter ==
    CHOOSE r \in liabilities' :
      r.id = last'.id[1] /\ r.user_id = from_request_parts(last'.header, now).user_id

\* a member the body omits leaves its column as it was
OmittedStays(body) ==
    \A f \in NullableOfLiability :
       Value_get(body, f) = None => LiabilityAfter[f] = LiabilityBefore[f]

\* a member the body gives as null sets its column to NULL
NullClears(body) ==
    \A f \in NullableOfLiability :
       Value_get(body, f) = Some(JsonNull) => LiabilityAfter[f] = None

\* C18: an update whose body carries an explicit null for a nullable field
\* sets that stored field to null, and a body that omits the field leaves the
\* stored value unchanged.
C18_NullClearsOmittedStays ==
    [][UpdatedLiability
       => \A body \in BodiesOfLast : NullClears(body) /\ OmittedStays(body)]_vars

-----------------------------------------------------------------------------
(* Properties: the two timestamps. *)

\* the update operations of the tables that carry both timestamps
StampedUpdateOps == UpdateOps \ {"update_transaction"}

\* every row of the table was updated no earlier than it was created; the
\* table holds both as whole seconds
NotUpdatedBeforeCreated(table) ==
    \A row \in table : row.updated_at >= row.created_at

\* the same for users, whose row holds the two instants as bound
UsersNotUpdatedBeforeCreated ==
    \A user \in users :
       \/ user.updated_at.secs > user.created_at.secs
       \/ /\ user.updated_at.secs = user.created_at.secs
          /\ user.updated_at.nanos >= user.created_at.nanos

TimestampsOrdered ==
    /\ UsersNotUpdatedBeforeCreated
    /\ NotUpdatedBeforeCreated(accounts)
    /\ NotUpdatedBeforeCreated(budgets)
    /\ NotUpdatedBeforeCreated(liabilities)
    /\ NotUpdatedBeforeCreated(loans)
    /\ NotUpdatedBeforeCreated(recurring_transactions)
    /\ NotUpdatedBeforeCreated(savings_goals)

\* a successful update leaves the row it names with the time of the update
UpdateStamps ==
    \A op \in StampedUpdateOps :
       (Serves({op}) /\ last'.status = 200)
       => /\ \E new \in UpdatedTable(op)' : new.id = last'.id[1]
          /\ \A new \in UpdatedTable(op)' :
                new.id = last'.id[1] => new.updated_at = now

\* C19: in every reachable state every row of users, accounts, budgets,
\* liabilities, loans, recurring_transactions and savings_goals has
\* updated_at >= created_at, and every successful update of such a row sets
\* updated_at to the time of that update, also when no field value changed.
C19_TimestampsOrderedAndStamped ==
    []TimestampsOrdered /\ [][UpdateStamps]_vars

\* a loan has been updated with no field a second or more after its creation,
\* while a user who signed up later is stored
C19_Witness ==
    /\ last.op = "update_loan"
    /\ last.status = 200
    /\ last.req = EmptyLoanUpdate
    /\ Cardinality(users) > 2
    /\ \E row \in loans :
         /\ row.id = last.id[1]
         /\ row.updated_at = last.at
         /\ row.updated_at > row.created_at

-----------------------------------------------------------------------------
(* Properties: ids and owners. *)

\* no two rows of the table have the same id
UniqueIds(table) == \A r1, r2 \in table : r1.id = r2.id => r1 = r2

IdsAreKeys ==
    /\ UniqueIds(users)
    /\ \A e \in Entities : UniqueIds(EntityTable(e))

\* the operations after which a row of the entity's table may be new, and
\* those after which one may be gone; deleting an account takes its
\* transactions with it (ON DELETE CASCADE)
Creates(e) == {"create_" \o e}
Deletes(e) ==
    IF e = "transaction" THEN {"delete_transaction", "delete_account"}
    ELSE {"delete_" \o e}

\* a row that is in the table before and after the step has its owner kept;
\* ids come into the table by its create only and leave it by a delete only
KeysKept(e) ==
    /\ \A old \in EntityTable(e) : \A new \in EntityTable(e)' :
          new.id = old.id => new.user_id = old.user_id
    /\ IdsOf(EntityTable(e)') \subseteq IdsOf(EntityTable(e))
       \/ (last'.op \in Creates(e) /\ last'.status = 200)
    /\ IdsOf(EntityTable(e)) \subseteq IdsOf(EntityTable(e)')
       \/ (last'.op \in Deletes(e) /\ last'.status = 200)

\* a stored user keeps its id: users are added, never changed or removed
UsersKept == \A old \in users : \E new \in users' : new.id = old.id

\* C20: in every reachable state no two rows of the same table share an id,
\* and no operation changes the id or the owning user_id of an existing row:
\* they stay as set at creation until the row is deleted.
C20_IdsUniqueAndKept ==
    []IdsAreKeys /\ [][UsersKept /\ \A e \in Entities : KeysKept(e)]_vars

\* two users hold a loan each, and the one whose id was drawn by the server
\* has been updated with every field
C20_Witness ==
    /\ last.op = "update_loan"
    /\ last.status = 200
    /\ last.req = FullLoanUpdate
    /\ Cardinality(loans) = 2
    /\ \E r1, r2 \in loans : r1.user_id = "u1" /\ r2.user_id = "u2"

-----------------------------------------------------------------------------
(* Properties: the order of lists. *)

\* the list operations whose documented order is by a date of the row
DescendingLists ==
    {"get_transactions", "get_user_transactions", "get_loans", "get_user_loans"}
AscendingLists ==
    {"get_liabilities", "get_user_liabilities", "get_savings_goals",
     "get_user_savings_goals"}

\* the second of the date a listed row is ordered by: the per-resource
\* handlers answer the stored text, the get_user_ handlers of transactions,
\* loans and liabilities the decoded instant
OrderDate(op, row) ==
    CASE op = "get_transactions" -> row.date
      [] op = "get_user_transactions" -> row.date.secs
      [] op = "get_loans" -> row.loan_date
      [] op = "get_user_loans" -> row.loan_date.secs
      [] op = "get_liabilities" -> row.due_date
      [] op = "get_user_liabilities" -> row.due_date.secs
      [] op \in {"get_savings_goals", "get_user_savings_goals"} -> row.target_date

\* the list just answered is in the documented order
InDocumentedOrder(ops) ==
    (last.op \in ops /\ last.status = 200) =>
       \A i \in 1..(Len(last.body) - 1) :
          IF last.op \in DescendingLists
          THEN OrderDate(last.op, last.body[i]) >= OrderDate(last.op, last.body[i + 1])
          ELSE OrderDate(last.op, last.body[i]) <= OrderDate(last.op, last.body[i + 1])

\* C21: every list operation returns its rows in the documented order:
\* transactions by date descending, liabilities by due date ascending, loans
\* by loan date descending and savings goals by target date ascending, in the
\* per-resource list handler and in the get_user_ handler alike.
C21_ListsInDocumentedOrder == InDocumentedOrder(DescendingLists \cup AscendingLists)

-----------------------------------------------------------------------------
(* Properties: the date of a transaction. *)

\* the date members whose deserialisation is the date of the request served
MembersOfLast ==
    {member \in DateMembers :
       /\ deserialize_optional_datetime(member).ok
       /\ deserialize_optional_datetime(member).value = last'.req.date}

\* a transaction has just been created
CreatedTransaction ==
    /\ Serves({"create_transaction"})
    /\ last'.status = 200

\* the instant n seconds, and n milliseconds, after the epoch
EpochSeconds(n) == DateTime(n, 0)
EpochMillis(n) == DateTime(n \div 1000, (n % 1000) * 1000000)

\* digits denoting seconds give the instant that many seconds after the epoch
SecondsAreSeconds(member) ==
    (member /= None /\ member[1] /= JsonNull /\ member[1][2] \in SecondsTexts)
       => last'.body.date = EpochSeconds(member[1][2][2])
\* digits denoting milliseconds give the instant that many milliseconds after
MillisAreMillis(member) ==
    (member /= None /\ member[1] /= JsonNull /\ member[1][2] \in MillisTexts)
       => last'.body.date = EpochMillis(member[1][2][2])
\* an omitted, null or empty date gives the time of creation
NoDateIsNow(member) ==
    member \in {None, Some(JsonNull), Some(JsonString(EmptyText))}
       => last'.body.date = last'.body.created_at /\ last'.body.date = Utc_now

\* C22: the date of a transaction create request accepts epoch-seconds and
\* epoch-milliseconds strings: digits denoting S seconds are parsed to the
\* instant S seconds after the epoch, digits denoting M milliseconds to the
\* instant M milliseconds after it, and an omitted, null or empty date yields
\* the creation time.
C22_EpochSecondsAndMillis ==
    [][CreatedTransaction
       => \A member \in MembersOfLast :
             /\ SecondsAreSeconds(member)
             /\ MillisAreMillis(member)
             /\ NoDateIsNow(member)]_vars

-----------------------------------------------------------------------------
(* Properties: updates that overlap in time. *)

RacedOps == {"update_budget", "update_account"}

\* the fields a request supplies
Supplied(request) == {f \in DOMAIN request : request[f] /= None}

\* the row of the table that the request last answered names
NamedRow(table) == CHOOSE r \in table : r.id = last'.id[1]

\* the statement of a successful update is applied as a whole: every field
\* it supplies is set and everything else in the row, whoever wrote it, is
\* kept
AppliedWhole ==
    \A op \in RacedOps :
       (Serves({op}) /\ last'.status = 200) =>
          \E old \in UpdatedTable(op) :
             /\ old.id = last'.id[1]
             /\ \E new \in UpdatedTable(op)' :
                  /\ MergedRow(op, old, new, last'.req, TRUE)
                  /\ UpdatedTable(op)' \ {new} = UpdatedTable(op) \ {old}

\* the statement follows another successful statement on the same row: of
\* the fields the earlier one supplied, those the later one supplies too hold
\* the later value and the others still hold the earlier value
LaterWinsEarlierKept ==
    \A op \in RacedOps :
       (/\ Serves({op}) /\ last'.status = 200
        /\ last.op = op /\ last.status = 200 /\ last.id = last'.id)
       => /\ \A f \in Supplied(last'.req) :
                NamedRow(UpdatedTable(op)')[f] = last'.req[f][1]
          /\ \A f \in Supplied(last.req) \ Supplied(last'.req) :
                NamedRow(UpdatedTable(op)')[f] = last.req[f][1]

\* C23: two updates of one row by one principal that run concurrently are
\* each applied atomically as a whole: with disjoint fields the row ends with
\* both sets of new values, with a common field its final value is that of
\* the later statement, and no state shows part of a request's fields applied.
C23_ConcurrentUpdatesAtomic == [][AppliedWhole /\ LaterWinsEarlierKept]_vars

\* an update of a budget's amount began while an update of its category was
\* in flight; both are answered and the row holds both new values
C23_Witness ==
    /\ \A slot \in Slots : inflight[slot].stage = "done"
    /\ last.op = "update_budget"
    /\ last.status = 200
    /\ \E slot \in Slots :
         /\ inflight[slot].op = "update_budget"
         /\ inflight[slot].req = Some(BudgetAmountOnly)
         /\ BudgetCategoryOnly \in inflight[slot].seen
    /\ \E row \in budgets :
         row.id = last.id[1] /\ row.category = "rent" /\ row.amount = 7

-----------------------------------------------------------------------------
(* Properties: the account of a transaction. *)

\* the accounts a transaction row refers to
AccountsOf(x) == {a \in accounts : a.id = x.account_id}

\* C24: in every reachable state the account a transaction row refers to
\* belongs to the user the transaction belongs to.
C24_TransactionsOnOwnAccounts ==
    \A x \in transactions : \A a \in AccountsOf(x) : a.user_id = x.user_id

\* what the schema does keep: the account a transaction refers to exists
AccountOfTransactionExists ==
    \A x \in transactions : AccountsOf(x) /= {}

-----------------------------------------------------------------------------
(* Properties: the type of an account. *)

\* the stored type strings are ones the decoder of the Account row accepts
StoredTypesDecode == \A a \in accounts : AccountTypeDecode(a.account_type) /= None

\* the caller of the last request
CallerOfLast == from_request_parts(last.header, last.at).user_id

\* the list reports the row with the type that was written
Reported(row, body) ==
    \E i \in DOMAIN body :
        /\ body[i].id = row.id
        /\ DebugLowercase(body[i].account_type) = row.account_type

\* get_user_accounts, called by a user whose token is good, succeeds and
\* reports each of the user's accounts with its type
ListOfOwnerSucceeds ==
    (last.op = "get_user_accounts" /\ last.status /= 401)
    => /\ last.status = 200
       /\ \A a \in OwnedBy(accounts, CallerOfLast) : Reported(a, last.body)

\* C25: for every account type create_account and update_account accept, the
\* string stored is one the decoder of the Account row accepts, and
\* get_user_accounts of the owner succeeds and reports that type.
C25_StoredTypeIsDecodable == StoredTypesDecode /\ ListOfOwnerSucceeds

\* the same for the five types whose name is one word
OneWordTypes == {"Wallet", "Bank", "Cash", "Investment", "Savings"}
OneWordTypesDecode ==
    \A a \in accounts :
        a.account_type \in {DebugLowercase(t) : t \in OneWordTypes}
        => AccountTypeDecode(a.account_type) = Some(CHOOSE t \in OneWordTypes :
                                                     DebugLowercase(t) = a.account_type)

-----------------------------------------------------------------------------
(* Properties: references between tables. *)

\* every row of the four tables refers to a user that exists
UserOfRowExists ==
    \A r \in accounts \cup transactions \cup liabilities \cup loans :
        UserExists(r.user_id)

\* a delete_account that succeeds leaves no transaction of that account
DeleteCascades ==
    (last'.op = "delete_account" /\ last'.status = 200)
    => \A x \in transactions' : x.account_id /= last'.id[1]

\* a create_transaction naming an account that does not exist fails and
\* stores nothing
CreateOnMissingAccountFails ==
    (/\ last'.op = "create_transaction"
     /\ last'.status /= 401
     /\ ~AccountExists(last'.req.account_id))
    => /\ last'.status \notin {200, 201}
       /\ transactions' = transactions

\* C26: after delete_account succeeds for an account no transaction of that
\* account remains; every transaction refers to an account that exists and
\* every account, transaction, liability and loan to a user that exists; a
\* create_transaction naming an account that does not exist fails and stores
\* nothing.
C26_ReferencesHold ==
    /\ [](AccountOfTransactionExists /\ UserOfRowExists)
    /\ [][DeleteCascades /\ CreateOnMissingAccountFails]_vars

\* an account was deleted, a transaction of another account is still there,
\* and a create_transaction naming the deleted account has just failed
C26_Witness ==
    /\ last.op = "create_transaction"
    /\ last.status = 500
    /\ ~AccountExists(last.req.account_id)
    /\ \E x \in transactions : AccountExists(x.account_id)
    /\ liabilities /= {}

-----------------------------------------------------------------------------
(* Properties: what a create tells of the rows of others. *)

\* the creates that answer an id in use with 409
ConflictOps ==
    {"create_budget", "create_liability", "create_loan",
     "create_recurring_transaction", "create_savings_goal"}

\* the status of a create of id on a table
CreateStatus(table, id) ==
    IF InsertResult(table, [id |-> id], "id", TRUE) = SqlOk THEN 200 ELSE 409

\* the served create, of an authenticated caller, names an id
CreateNamesId ==
    /\ Serves(ConflictOps)
    /\ Caller /= ""
    /\ last'.req.id /= None

\* C27: the response to a create with a caller-supplied id is the one the
\* same request gets on the caller's own rows alone, whether or not another
\* principal has a row with that id.
C27_CreateHidesForeignIds ==
    [][CreateNamesId
       => last'.status = CreateStatus(OwnedBy(CreatedTable(last'.op), Caller),
                                      last'.req.id[1])]_vars

\* the same where no other principal has a row with the id
CreateOnOwnRows ==
    [][(/\ CreateNamesId
        /\ \A r \in CreatedTable(last'.op) :
              r.id = last'.req.id[1] => r.user_id = Caller)
       => last'.status = CreateStatus(OwnedBy(CreatedTable(last'.op), Caller),
                                      last'.req.id[1])]_vars

-----------------------------------------------------------------------------
(* Properties: the user an email denotes. *)

\* the users signup has stored for the email and password of the served
\* request: signup stores the email as it was sent
SignedUp ==
    {u \in users : /\ u.email = last'.req.email
                   /\ verify(last'.req.password, u.password_hash)}

\* the served request is answered with a token of the user signup stored
AuthenticatesSignedUp ==
    /\ last'.status = 200
    /\ \A u \in SignedUp : last'.body.token.sub = u.id
    /\ users' = users

\* signin and login with the email and password of a sign-up authenticate the
\* user of that sign-up; signup with that email answers 409
AgreeOnEmail(emails) ==
    /\ (Serves({"signin", "login"}) /\ last'.req.email \in emails /\ SignedUp /= {})
       => AuthenticatesSignedUp
    /\ (Serves({"signup"}) /\ last'.req.email \in emails
        /\ \E u \in users : u.email = last'.req.email)
       => (last'.status = 409 /\ users' = users)

\* C28: for every email, in any letter case and with or without surrounding
\* whitespace, after signup with the email and a password succeeds, signin
\* with the same email and password authenticates that user and creates no
\* user row; signup, login and signin agree on the user an email denotes.
C28_SigninFindsSignedUpUser == [][AgreeOnEmail(SignEmails \cup Emails)]_vars

\* the same for the emails that trimming and lower-casing leave as they are
TrimmedEmails == {e \in SignEmails \cup Emails : trim_to_lowercase(e) = e}
TrimmedEmailsAgree == [][AgreeOnEmail(TrimmedEmails)]_vars

-----------------------------------------------------------------------------
(* Properties: registrations that overlap in time. *)

RegisterOps == {"signup", "signin"}

\* no two user rows have the same email
UniqueEmails == \A u, v \in users : u.email = v.email => u = v

\* the email the registration of a slot stores: signup the email as sent,
\* signin the trimmed, lower-cased one
StoredEmail(call) ==
    IF call.op = "signup" THEN call.req[1].email
    ELSE trim_to_lowercase(call.req[1].email)

\* the slots whose registration runs its INSERT in this step
Inserting ==
    {slot \in Slots : /\ inflight[slot].stage = "selected"
                      /\ inflight[slot].op \in RegisterOps
                      /\ inflight'[slot].stage = "done"}

\* the registrations that have run their INSERT
InsertedSlots ==
    {slot \in Slots : inflight[slot].stage = "done" /\ inflight[slot].op \in RegisterOps}

\* an INSERT for an email no row has stores one row with it and answers a
\* token of that user; one for an email a row has answers an error with no
\* token and stores nothing
OneWins ==
    \A slot \in Inserting :
       LET email == StoredEmail(inflight[slot]) IN
       IF \E u \in users : u.email = email
       THEN /\ last'.status \in {400, 401, 404, 409, 500}
            /\ last'.body = "Failed to create user"
            /\ users' = users
            /\ tokens' = tokens
       ELSE /\ last'.status = 200
            /\ \E u \in users' \ users :
                  /\ users' = users \cup {u}
                  /\ u.email = email
                  /\ last'.body.token.sub = u.id
                  /\ verify_jwt(last'.body.token, now).ok

\* every registration that has run its INSERT finds a row with its email
SomeoneWon ==
    \A slot \in InsertedSlots : \E u \in users : u.email = StoredEmail(inflight[slot])

\* C29: under every interleaving of the SELECT and INSERT of concurrent signup
\* and signin requests no two user rows have the same email; of the
\* registrations overlapping for one email exactly one stores a row and
\* returns a token, every other one answers an error, stores nothing and
\* returns no token.
C29_ConcurrentRegistrationsOneRow ==
    /\ [](UniqueEmails /\ SomeoneWon)
    /\ [][OneWins]_vars

\* a signup and a signin for one new email both had no user from their SELECT;
\* both have run their INSERT, the second has just failed, one row has the email
C29_Witness ==
    /\ InsertedSlots = Slots
    /\ {inflight[slot].op : slot \in Slots} = RegisterOps
    /\ \A slot \in Slots : StoredEmail(inflight[slot]) = "c@x.io"
    /\ last.status = 500
    /\ Cardinality({u \in users : u.email = "c@x.io"}) = 1

-----------------------------------------------------------------------------
(* Properties: requests that fail. *)

ErrorStatuses == {400, 401, 404, 409, 500}

\* the step answers a request with an error status
AnswersError == last' /= last /\ last'.status \in ErrorStatuses

-----------------------------------------------------------------------------
(* The whole program: every request of every family above. *)

Next ==
    \/ NextAuth
    \/ NextAccess
    \/ NextList
    \/ NextCreate
    \/ NextUpdate
    \/ NextTouch
    \/ NextRoundTrip
    \/ NextDelete
    \/ NextSign
    \/ NextPreferences
    \/ NextClear
    \/ NextStamp
    \/ NextKeys
    \/ NextOrder
    \/ NextDates
    \/ NextRace
    \/ NextOwner
    \/ NextTypes
    \/ NextCascade
    \/ NextRegister
    \/ NextFail

Spec == Init /\ [][Next]_vars

=============================================================================
